---------------------------- MODULE Spec2Model ----------------------------
(***************************************************************************)
(* Model of the investment screening engine of Djoulia/TestV3:             *)
(*   src/backend/utils/helpers.py       extraction, keyword predicates,    *)
(*                                      aggregation                        *)
(*   src/backend/evaluator.py           the nine criterion evaluators      *)
(*   src/backend/workflows/investment_screening.py                         *)
(*                                      one screening pass and its report  *)
(*   src/investment_screening/config/settings.py   thresholds, word lists  *)
(*                                                                         *)
(* Analysis texts are TLA+ strings; substring tests, lower-casing and the  *)
(* regular expressions of helpers.py are computed character by character.  *)
(* Python floats are modelled as exact decimal fractions [n, d] (value     *)
(* n/d, d a power of ten): float() of a decimal literal and the            *)
(* comparisons against the thresholds of settings.py agree with IEEE       *)
(* doubles for literals of at most 15 significant digits, which is what    *)
(* the vocabulary below contains.                                          *)
(***************************************************************************)
EXTENDS Integers, Sequences, FiniteSets, TLC

(***************************************************************************)
(* Characters and strings                                                  *)
(***************************************************************************)
UPPERCASE == "ABCDEFGHIJKLMNOPQRSTUVWXYZ"
LOWERCASE == "abcdefghijklmnopqrstuvwxyz"
DIGITS    == "0123456789"

\* s[i] as a one-character string, "" outside the string
Char(s, i) == IF i >= 1 /\ i <= Len(s) THEN SubSeq(s, i, i) ELSE ""

\* position of the one-character string c in alphabet, 0 when absent
IndexIn(c, alphabet) ==
    IF \E k \in 1..Len(alphabet) : SubSeq(alphabet, k, k) = c
    THEN CHOOSE k \in 1..Len(alphabet) : SubSeq(alphabet, k, k) = c
    ELSE 0

Chars(alphabet) == {SubSeq(alphabet, k, k) : k \in 1..Len(alphabet)}
DigitChars == Chars(DIGITS)
UpperChars == Chars(UPPERCASE)
LowerChars == Chars(LOWERCASE)
ToLowerMap == [c \in UpperChars |-> SubSeq(LOWERCASE, IndexIn(c, UPPERCASE), IndexIn(c, UPPERCASE))]
ToUpperMap == [c \in LowerChars |-> SubSeq(UPPERCASE, IndexIn(c, LOWERCASE), IndexIn(c, LOWERCASE))]
DigitMap   == [c \in DigitChars |-> IndexIn(c, DIGITS) - 1]

IsDigit(c) == c \in DigitChars
IsSpace(c) == c \in {" ", "\n", "\t", "\r"}
IsAlpha(c) == c \in UpperChars \/ c \in LowerChars

LowerChar(c) == IF c \in UpperChars THEN ToLowerMap[c] ELSE c
UpperChar(c) == IF c \in LowerChars THEN ToUpperMap[c] ELSE c

\* the least element of a non-empty set of positions
Least(positions) == CHOOSE i \in positions : \A j \in positions : i <= j

RECURSIVE LowerBetween(_, _, _)
\* s[lo..hi] lower-cased, character by character (halving keeps the nesting shallow)
LowerBetween(s, lo, hi) ==
    IF lo > hi THEN ""
    ELSE IF lo = hi THEN LowerChar(Char(s, lo))
    ELSE LowerBetween(s, lo, (lo + hi) \div 2) \o LowerBetween(s, ((lo + hi) \div 2) + 1, hi)
\* str.lower()
Lower(s) == LowerBetween(s, 1, Len(s))

RECURSIVE TitleBetween(_, _, _)
TitleBetween(s, lo, hi) ==
    IF lo > hi THEN ""
    ELSE IF lo = hi
         THEN (IF IsAlpha(Char(s, lo - 1)) THEN LowerChar(Char(s, lo))
                                           ELSE UpperChar(Char(s, lo)))
    ELSE TitleBetween(s, lo, (lo + hi) \div 2) \o TitleBetween(s, ((lo + hi) \div 2) + 1, hi)
\* str.title(): a letter is upper-cased after a non-letter, lower-cased after a letter
Title(s) == TitleBetween(s, 1, Len(s))

\* `sub in s`
Contains(s, sub) ==
    \E i \in 1..(Len(s) - Len(sub) + 1) : SubSeq(s, i, i + Len(sub) - 1) = sub

\* s[i:].startswith(sub)
StartsAt(s, i, sub) ==
    i >= 1 /\ i + Len(sub) - 1 <= Len(s) /\ SubSeq(s, i, i + Len(sub) - 1) = sub

\* str.strip()
RECURSIVE StripLeft(_)
StripLeft(s) ==
    IF s # "" /\ IsSpace(Char(s, 1)) THEN StripLeft(SubSeq(s, 2, Len(s))) ELSE s
RECURSIVE StripRight(_)
StripRight(s) ==
    IF s # "" /\ IsSpace(Char(s, Len(s))) THEN StripRight(SubSeq(s, 1, Len(s) - 1)) ELSE s
Strip(s) == StripRight(StripLeft(s))

(***************************************************************************)
(* Numbers: int(), float(), and the str() of both used by the f-strings    *)
(***************************************************************************)
RECURSIVE Pow10(_)
Pow10(k) == IF k = 0 THEN 1 ELSE 10 * Pow10(k - 1)

RECURSIVE DigitsValue(_, _)
\* int() of a string of decimal digits; acc is the value read so far
DigitsValue(s, acc) ==
    IF s = "" THEN acc
    ELSE DigitsValue(SubSeq(s, 2, Len(s)), 10 * acc + DigitMap[Char(s, 1)])
ParseInt(s) == DigitsValue(s, 0)

RECURSIVE DotIndex(_, _)
DotIndex(s, i) ==
    IF i > Len(s) THEN 0 ELSE IF Char(s, i) = "." THEN i ELSE DotIndex(s, i + 1)

\* float() of a literal matching \d+(\.\d+)? : the exact fraction n/d
ParseFloat(s) ==
    LET p == DotIndex(s, 1) IN
    IF p = 0 THEN [n |-> ParseInt(s), d |-> 1]
    ELSE [n |-> ParseInt(SubSeq(s, 1, p - 1) \o SubSeq(s, p + 1, Len(s))),
          d |-> Pow10(Len(s) - p)]

Float(num, den) == [n |-> num, d |-> den]
FZero == Float(0, 1)
FGe(a, b) == a.n * b.d >= b.n * a.d
FGt(a, b) == a.n * b.d >  b.n * a.d
FLt(a, b) == a.n * b.d <  b.n * a.d
FEq(a, b) == a.n * b.d =  b.n * a.d
FMul(a, k) == [n |-> a.n * k, d |-> a.d]

RECURSIVE IntStr(_)
\* str() of a non-negative int
IntStr(k) ==
    IF k < 10 THEN SubSeq(DIGITS, k + 1, k + 1)
    ELSE IntStr(k \div 10) \o SubSeq(DIGITS, (k % 10) + 1, (k % 10) + 1)

RECURSIVE FracStr(_, _)
\* the decimal digits of r/d, 0 <= r < d, without trailing zeros
FracStr(r, d) ==
    IF r = 0 THEN ""
    ELSE SubSeq(DIGITS, ((10 * r) \div d) + 1, ((10 * r) \div d) + 1)
         \o FracStr((10 * r) % d, d)

\* str() of a float: shortest decimal, with ".0" for a whole value
FloatStr(x) ==
    LET ip == x.n \div x.d
        fr == FracStr(x.n % x.d, x.d)
    IN IntStr(ip) \o "." \o (IF fr = "" THEN "0" ELSE fr)

(***************************************************************************)
(* config/settings.py                                                      *)
(***************************************************************************)
MIN_INVESTMENT_SIZE       == Float(50, 10)
PREFERRED_INVESTMENT_SIZE == Float(79, 10)
MIN_IRR_THRESHOLD         == Float(150, 10)
MIN_DIVIDEND_YIELD        == Float(40, 10)
MIN_TIMELINE_WEEKS        == 8
MIN_KGI_TIMELINE_WEEKS    == 3

TARGET_SECTORS ==
    <<"healthcare", "education", "data economy", "energy transition", "industrials">>
EXCLUDED_SECTORS == <<"consumer", "traditional infrastructure">>
FUND_TYPES ==
    <<"venture fund", "pe fund", "hedge fund", "fund investment", "pooled investment">>

MET     == "MET"
NOT_MET == "NOT MET"
\* the two glyphs of STATUS_COLORS, named by code point
STATUS_COLORS == [st \in {MET, NOT_MET} |-> IF st = MET THEN "U+1F7E2" ELSE "U+1F534"]

(***************************************************************************)
(* utils/helpers.py                                                        *)
(***************************************************************************)
\* faulty variant: the marker is chosen from the wording of the explanation
create_evaluation_result_marker_by_wording(status, explanation) ==
    [status |-> status, explanation |-> explanation,
     color |-> IF StartsAt(explanation, 1, "No ") THEN STATUS_COLORS[NOT_MET]
               ELSE STATUS_COLORS[status]]

create_evaluation_result(status, explanation) ==
    [status |-> status, explanation |-> explanation, color |-> STATUS_COLORS[status]]

\* [:\s] and [^\n\r\.] of the company-name pattern
IsNameSeparator(c) == c = ":" \/ IsSpace(c)
IsNameChar(c) == c # "" /\ c \notin {"\n", "\r", "."}

RECURSIVE NameSeparatorEnd(_, _)
\* [:\s]+ tried at i, greedy: the index after the run of separators
NameSeparatorEnd(s, i) ==
    IF IsNameSeparator(Char(s, i)) THEN NameSeparatorEnd(s, i + 1) ELSE i

RECURSIVE NameEnd(_, _)
\* [^\n\r\.]+ tried at i, greedy: the index after the run
NameEnd(s, i) == IF IsNameChar(Char(s, i)) THEN NameEnd(s, i + 1) ELSE i

\* company name[:\s]+([^\n\r\.]+) with re.IGNORECASE tried at i: the group, "" when
\* it does not match.  The separators are taken greedily and given back one by one
\* until a character of the group follows, so the group starts at the last
\* position, after at least one separator, that holds such a character.
CompanyNameAt(s, i) ==
    LET from == i + Len("company name")
        group_starts == {k \in (from + 1)..NameSeparatorEnd(s, from) :
                            IsNameChar(Char(s, k))}
        k == CHOOSE g \in group_starts : \A h \in group_starts : h <= g
    IN IF StartsAt(Lower(s), i, "company name") /\ group_starts # {}
       THEN SubSeq(s, k, NameEnd(s, k) - 1) ELSE ""

\* re.search(...).group(1): the group of the leftmost match, "" when there is none
FirstCompanyName(s) ==
    LET starts == {i \in 1..Len(s) : CompanyNameAt(s, i) # ""} IN
    IF starts = {} THEN "" ELSE CompanyNameAt(s, Least(starts))

extract_company_name(analysis_text) ==
    LET company_matches == FirstCompanyName(analysis_text) IN
    IF company_matches # "" THEN Strip(company_matches) ELSE "Unknown Company"

\* any(keyword.lower() in text_lower for keyword in keywords)
check_keywords_present(analysis_text, keywords) ==
    LET text_lower == Lower(analysis_text) IN
    \E k \in 1..Len(keywords) : Contains(text_lower, Lower(keywords[k]))

\* all(keyword.lower() in text_lower for keyword in keywords)
check_all_keywords_present(analysis_text, keywords) ==
    LET text_lower == Lower(analysis_text) IN
    \A k \in 1..Len(keywords) : Contains(text_lower, Lower(keywords[k]))

RECURSIVE DigitsEnd(_, _)
\* \d+ tried at i, greedy: the index after the run of digits (i when there is none)
DigitsEnd(s, i) == IF IsDigit(Char(s, i)) THEN DigitsEnd(s, i + 1) ELSE i

RECURSIVE SpaceEnd(_, _)
\* \s* tried at i, greedy: the index after the run of white space
SpaceEnd(s, i) == IF IsSpace(Char(s, i)) THEN SpaceEnd(s, i + 1) ELSE i

\* \d+(?:\.\d+)? tried at i: the index after the match, 0 when it does not match.
\* The greedy match is the only one that can be completed: each pattern below
\* continues with \s* and a letter or "%", which matches neither a digit nor ".".
NumberEnd(s, i) ==
    LET e1 == DigitsEnd(s, i)
        e2 == DigitsEnd(s, e1 + 1)
    IN IF e1 = i THEN 0
       ELSE IF Char(s, e1) = "." /\ e2 > e1 + 1 THEN e2 ELSE e1

\* \$(\d+(?:\.\d+)?)\s*m tried at i: the group, "" when it does not match
AmountAt(s, i) ==
    LET e == NumberEnd(s, i + 1) IN
    IF Char(s, i) = "$" /\ e # 0 /\ Char(s, SpaceEnd(s, e)) = "m"
    THEN SubSeq(s, i + 1, e - 1) ELSE ""

\* faulty variant: the group of the last match is taken
FirstAmount_last(s) ==
    LET starts == {i \in 1..Len(s) : AmountAt(s, i) # ""} IN
    IF starts = {} THEN ""
    ELSE AmountAt(s, CHOOSE i \in starts : \A j \in starts : j <= i)

\* re.findall(...)[0]: the group of the leftmost match, "" when there is none
FirstAmount(s) ==
    LET starts == {i \in 1..Len(s) : AmountAt(s, i) # ""} IN
    IF starts = {} THEN "" ELSE AmountAt(s, Least(starts))

extract_investment_amount(analysis_text) ==
    LET amount_match == FirstAmount(Lower(analysis_text)) IN
    IF amount_match # "" THEN ParseFloat(amount_match) ELSE FZero

\* (\d+)\s*week tried at i: the group, "" when it does not match
WeekAt(s, i) ==
    LET e == DigitsEnd(s, i) IN
    IF e > i /\ StartsAt(s, SpaceEnd(s, e), "week") THEN SubSeq(s, i, e - 1) ELSE ""

FirstWeek(s) ==
    LET starts == {i \in 1..Len(s) : WeekAt(s, i) # ""} IN
    IF starts = {} THEN "" ELSE WeekAt(s, Least(starts))

extract_timeline_weeks(analysis_text) ==
    LET week_match == FirstWeek(Lower(analysis_text)) IN
    IF week_match # "" THEN ParseInt(week_match) ELSE 0

\* (\d+(?:\.\d+)?)\s*% tried at i: the index after the match, 0 when it does not match
PercentEnd(s, i) ==
    LET e == NumberEnd(s, i) IN
    IF e # 0 /\ Char(s, SpaceEnd(s, e)) = "%" THEN SpaceEnd(s, e) + 1 ELSE 0

\* the group of that match
PercentGroup(s, i) == SubSeq(s, i, NumberEnd(s, i) - 1)

\* .*?(\d+(?:\.\d+)?)\s*% tried at p: "." does not match a line break, and the
\* lazy star takes the first position where the rest matches
LazyPercent(s, p) ==
    LET starts == {q \in p..Len(s) :
                      /\ PercentEnd(s, q) # 0
                      /\ \A r \in p..(q - 1) : Char(s, r) # "\n"}
    IN IF starts = {} THEN "" ELSE PercentGroup(s, Least(starts))

\* irr.*?(\d+(?:\.\d+)?)\s*% tried at i
IrrAt(s, i) == IF StartsAt(s, i, "irr") THEN LazyPercent(s, i + 3) ELSE ""

FirstIrr(s) ==
    LET starts == {i \in 1..Len(s) : IrrAt(s, i) # ""} IN
    IF starts = {} THEN "" ELSE IrrAt(s, Least(starts))

extract_irr_percentage(analysis_text) ==
    LET irr_match == FirstIrr(Lower(analysis_text)) IN
    IF irr_match # "" THEN ParseFloat(irr_match) ELSE FZero

RECURSIVE YieldFrom(_, _)
\* the loop over re.findall(r'(\d+(?:\.\d+)?)\s*%', text): matches are taken left
\* to right without overlap, and the first value > 1 is returned
YieldFrom(s, i) ==
    LET starts == {q \in i..Len(s) : PercentEnd(s, q) # 0} IN
    IF starts = {} THEN FZero
    ELSE LET yield_val == ParseFloat(PercentGroup(s, Least(starts))) IN
         IF FGt(yield_val, Float(1, 1)) THEN yield_val
         ELSE YieldFrom(s, PercentEnd(s, Least(starts)))

\* faulty variant: the first match is returned whatever its value
extract_yield_percentage_first_match(analysis_text) ==
    LET starts == {q \in 1..Len(analysis_text) : PercentEnd(analysis_text, q) # 0} IN
    IF starts = {} THEN FZero
    ELSE ParseFloat(PercentGroup(analysis_text, Least(starts)))

extract_yield_percentage(analysis_text) == YieldFrom(analysis_text, 1)

format_currency(amount) ==
    IF FGe(amount, Float(1, 1)) THEN "$" \o FloatStr(amount) \o "m"
    ELSE IF FGt(amount, FZero) THEN "$" \o FloatStr(FMul(amount, 1000)) \o "k"
    ELSE "Not specified"

format_percentage(percentage) ==
    IF FGt(percentage, FZero) THEN FloatStr(percentage) \o "%" ELSE "Not specified"

\* faulty variant: the top tier is measured against total_count
generate_overall_recommendation_of_total(met_count, total_count) ==
    IF met_count >= total_count - 2 THEN "RECOMMEND for further due diligence"
    ELSE IF met_count >= 5 THEN "CONDITIONAL RECOMMEND - address key gaps"
    ELSE "DO NOT RECOMMEND - insufficient criteria met"

generate_overall_recommendation(met_count, total_count) ==
    IF met_count >= 7 THEN "RECOMMEND for further due diligence"
    ELSE IF met_count >= 5 THEN "CONDITIONAL RECOMMEND - address key gaps"
    ELSE "DO NOT RECOMMEND - insufficient criteria met"

\* faulty variant: every stored verdict is counted, whatever its status
count_met_criteria_any_status(criteria_evaluations) ==
    Cardinality(DOMAIN criteria_evaluations)

\* count_met_criteria over the verdicts stored so far (a function from names)
count_met_criteria(criteria_evaluations) ==
    Cardinality({c \in DOMAIN criteria_evaluations :
                    criteria_evaluations[c].status = MET})

(***************************************************************************)
(* evaluator.py                                                            *)
(***************************************************************************)
_check_gcc_jv_opportunity(analysis_text) ==
    LET gcc_present == check_keywords_present(analysis_text, <<"gcc">>)
        jv_present == check_keywords_present(analysis_text, <<"joint venture", "jv">>)
        expansion_indicators ==
            check_keywords_present(analysis_text,
                <<"expansion", "partner", "business model", "proven">>)
    IN gcc_present /\ jv_present /\ expansion_indicators

\* faulty variant: the yield threshold is inclusive
_check_dividend_opportunity_inclusive(analysis_text) ==
    LET dividend_present == check_keywords_present(analysis_text, <<"dividend">>) IN
    IF ~dividend_present THEN FALSE
    ELSE FGe(extract_yield_percentage(analysis_text), MIN_DIVIDEND_YIELD)

_check_dividend_opportunity(analysis_text) ==
    LET dividend_present == check_keywords_present(analysis_text, <<"dividend">>) IN
    IF ~dividend_present THEN FALSE
    ELSE FGt(extract_yield_percentage(analysis_text), MIN_DIVIDEND_YIELD)

\* faulty variant: only "co-investment" counts beside "kgi", not "participation"
_check_kgi_opportunity_coinvestment_only(analysis_text) ==
    LET kgi_present == check_keywords_present(analysis_text, <<"kgi">>)
        coinvestment_present ==
            check_keywords_present(analysis_text, <<"co-investment">>)
    IN kgi_present /\ coinvestment_present

_check_kgi_opportunity(analysis_text) ==
    LET kgi_present == check_keywords_present(analysis_text, <<"kgi">>)
        coinvestment_present ==
            check_keywords_present(analysis_text, <<"co-investment", "participation">>)
    IN kgi_present /\ coinvestment_present

evaluate_geography_structure(analysis_text) ==
    IF _check_gcc_jv_opportunity(analysis_text) THEN
        create_evaluation_result(MET,
            "GCC JV opportunity identified with expansion plans and partner structure")
    ELSE IF _check_dividend_opportunity(analysis_text) THEN
        create_evaluation_result(MET,
            "Dividend-paying investment with yield greater than "
            \o FloatStr(MIN_DIVIDEND_YIELD) \o "%")
    ELSE IF _check_kgi_opportunity(analysis_text) THEN
        create_evaluation_result(MET, "KGI co-investment opportunity identified")
    ELSE
        create_evaluation_result(NOT_MET,
            "Does not meet any of the three required categories: GCC JV, dividend-paying (>"
            \o FloatStr(MIN_DIVIDEND_YIELD) \o "%), or KGI co-investment")

_check_new_jv(analysis_text) ==
    LET new_present == check_keywords_present(analysis_text, <<"new">>)
        jv_present == check_keywords_present(analysis_text, <<"joint venture", "jv">>)
    IN new_present /\ jv_present

_check_ebitda_positive(analysis_text) ==
    check_keywords_present(analysis_text, <<"ebitda positive", "positive ebitda">>)

_check_timeline_within_year(analysis_text) ==
    check_keywords_present(analysis_text,
        <<"within one year", "12 months", "less than a year">>)

_check_additional_funding_needed(analysis_text) ==
    check_keywords_present(analysis_text,
        <<"additional funding", "more funding", "next round", "series">>)

\* faulty variant: a funding phrase fails the criterion before the new-JV test
evaluate_financial_milestones_funding_first(analysis_text) ==
    IF _check_additional_funding_needed(analysis_text)
       /\ ~_check_ebitda_positive(analysis_text) THEN
        create_evaluation_result(NOT_MET,
            "Timeline exceeds one year or additional funding rounds needed before profitability")
    ELSE IF _check_new_jv(analysis_text) THEN
        create_evaluation_result(MET, "Not applicable - New JV")
    ELSE IF _check_ebitda_positive(analysis_text) THEN
        create_evaluation_result(MET, "Company is already EBITDA positive")
    ELSE IF _check_timeline_within_year(analysis_text) THEN
        create_evaluation_result(MET,
            "Timeline to positive EBITDA is within one year with current funding")
    ELSE
        create_evaluation_result(NOT_MET,
            "Timeline exceeds one year or additional funding rounds needed before profitability")

evaluate_financial_milestones(analysis_text) ==
    IF _check_new_jv(analysis_text) THEN
        create_evaluation_result(MET, "Not applicable - New JV")
    ELSE IF _check_ebitda_positive(analysis_text) THEN
        create_evaluation_result(MET, "Company is already EBITDA positive")
    ELSE IF _check_timeline_within_year(analysis_text)
            /\ ~_check_additional_funding_needed(analysis_text) THEN
        create_evaluation_result(MET,
            "Timeline to positive EBITDA is within one year with current funding")
    ELSE
        create_evaluation_result(NOT_MET,
            "Timeline exceeds one year or additional funding rounds needed before profitability")

_check_fund_investment(analysis_text) == check_keywords_present(analysis_text, FUND_TYPES)

_check_direct_investment(analysis_text) ==
    check_keywords_present(analysis_text,
        <<"company", "business", "startup", "direct investment">>)

\* faulty variant: the direct-investment signal is tested before the fund exclusion
evaluate_asset_class_exclusion_direct_first(analysis_text) ==
    IF _check_direct_investment(analysis_text) THEN
        create_evaluation_result(MET, "Direct company investment identified")
    ELSE IF _check_fund_investment(analysis_text) THEN
        create_evaluation_result(NOT_MET,
            "Fund investment identified - excluded due to team bandwidth and 2025 objectives")
    ELSE
        create_evaluation_result(NOT_MET, "Asset class information unclear or absent")

evaluate_asset_class_exclusion(analysis_text) ==
    IF _check_fund_investment(analysis_text) THEN
        create_evaluation_result(NOT_MET,
            "Fund investment identified - excluded due to team bandwidth and 2025 objectives")
    ELSE IF _check_direct_investment(analysis_text) THEN
        create_evaluation_result(MET, "Direct company investment identified")
    ELSE
        create_evaluation_result(NOT_MET, "Asset class information unclear or absent")

_check_lead_investor(analysis_text) ==
    check_keywords_present(analysis_text, <<"lead investor">>)

\* faulty variant: a missing lead investor fails the criterion
evaluate_investor_syndication_rejecting(analysis_text) ==
    IF _check_lead_investor(analysis_text) THEN
        create_evaluation_result(MET, "Lead investor identified in syndicate")
    ELSE
        create_evaluation_result(NOT_MET,
            "No lead investor identified - not a rejection criterion per Kanoo Ventures policy")

evaluate_investor_syndication(analysis_text) ==
    IF _check_lead_investor(analysis_text) THEN
        create_evaluation_result(MET, "Lead investor identified in syndicate")
    ELSE
        create_evaluation_result(MET,
            "No lead investor identified - not a rejection criterion per Kanoo Ventures policy")

_check_no_management_fees(analysis_text) ==
    check_keywords_present(analysis_text,
        <<"no management fee", "no direct management fee">>)

_check_management_fees_present(analysis_text) ==
    LET management_fee_present ==
            check_keywords_present(analysis_text, <<"management fee">>)
        no_management_fee == _check_no_management_fees(analysis_text)
    IN management_fee_present /\ ~no_management_fee

\* faulty variant: any "management fee" mention is tested first
evaluate_fee_terms_fee_first(analysis_text) ==
    IF check_keywords_present(analysis_text, <<"management fee">>) THEN
        create_evaluation_result(NOT_MET, "Management fees present that would hit KV P&L")
    ELSE IF _check_no_management_fees(analysis_text) THEN
        create_evaluation_result(MET, "No direct management fees that would impact KV P&L")
    ELSE
        create_evaluation_result(NOT_MET,
            "Fee information not mentioned - missing information counts as red")

\* faulty variant: missing fee information passes
evaluate_fee_terms_absent_passes(analysis_text) ==
    IF _check_no_management_fees(analysis_text) THEN
        create_evaluation_result(MET, "No direct management fees that would impact KV P&L")
    ELSE IF _check_management_fees_present(analysis_text) THEN
        create_evaluation_result(NOT_MET, "Management fees present that would hit KV P&L")
    ELSE
        create_evaluation_result(MET,
            "Fee information not mentioned - missing information counts as red")

evaluate_fee_terms(analysis_text) ==
    IF _check_no_management_fees(analysis_text) THEN
        create_evaluation_result(MET, "No direct management fees that would impact KV P&L")
    ELSE IF _check_management_fees_present(analysis_text) THEN
        create_evaluation_result(NOT_MET, "Management fees present that would hit KV P&L")
    ELSE
        create_evaluation_result(NOT_MET,
            "Fee information not mentioned - missing information counts as red")

\* faulty variant: the minimum threshold is exclusive
evaluate_investment_size_exclusive(analysis_text) ==
    LET investment_amount == extract_investment_amount(analysis_text) IN
    IF FGe(investment_amount, PREFERRED_INVESTMENT_SIZE) THEN
        create_evaluation_result(MET,
            "Investment size " \o format_currency(investment_amount)
            \o " meets preferred threshold with strong preference noted")
    ELSE IF FGt(investment_amount, MIN_INVESTMENT_SIZE) THEN
        create_evaluation_result(MET,
            "Investment size " \o format_currency(investment_amount)
            \o " meets minimum threshold with note about preference for larger tickets")
    ELSE IF FGt(investment_amount, FZero) THEN
        create_evaluation_result(NOT_MET,
            "Investment size " \o format_currency(investment_amount) \o " below $"
            \o FloatStr(MIN_INVESTMENT_SIZE)
            \o "m minimum - portfolio management concerns about too many small deals")
    ELSE
        create_evaluation_result(NOT_MET, "Investment size not specified")

\* faulty variant: the last branch is missing, so an amount of zero is left
\* without a status and without an explanation
evaluate_investment_size_unhandled(analysis_text) ==
    LET investment_amount == extract_investment_amount(analysis_text) IN
    IF FGe(investment_amount, PREFERRED_INVESTMENT_SIZE) THEN
        create_evaluation_result(MET,
            "Investment size " \o format_currency(investment_amount)
            \o " meets preferred threshold with strong preference noted")
    ELSE IF FGe(investment_amount, MIN_INVESTMENT_SIZE) THEN
        create_evaluation_result(MET,
            "Investment size " \o format_currency(investment_amount)
            \o " meets minimum threshold with note about preference for larger tickets")
    ELSE IF FGt(investment_amount, FZero) /\ FLt(investment_amount, MIN_INVESTMENT_SIZE) THEN
        create_evaluation_result(NOT_MET,
            "Investment size " \o format_currency(investment_amount) \o " below $"
            \o FloatStr(MIN_INVESTMENT_SIZE)
            \o "m minimum - portfolio management concerns about too many small deals")
    ELSE
        [status |-> "", explanation |-> "", color |-> ""]

evaluate_investment_size(analysis_text) ==
    LET investment_amount == extract_investment_amount(analysis_text) IN
    IF FGe(investment_amount, PREFERRED_INVESTMENT_SIZE) THEN
        create_evaluation_result(MET,
            "Investment size " \o format_currency(investment_amount)
            \o " meets preferred threshold with strong preference noted")
    ELSE IF FGe(investment_amount, MIN_INVESTMENT_SIZE) THEN
        create_evaluation_result(MET,
            "Investment size " \o format_currency(investment_amount)
            \o " meets minimum threshold with note about preference for larger tickets")
    ELSE IF FGt(investment_amount, FZero) /\ FLt(investment_amount, MIN_INVESTMENT_SIZE) THEN
        create_evaluation_result(NOT_MET,
            "Investment size " \o format_currency(investment_amount) \o " below $"
            \o FloatStr(MIN_INVESTMENT_SIZE)
            \o "m minimum - portfolio management concerns about too many small deals")
    ELSE
        create_evaluation_result(NOT_MET, "Investment size not specified")

_check_kgi_coinvestment(analysis_text) ==
    LET kgi_present == check_keywords_present(analysis_text, <<"kgi">>)
        coinvestment_present ==
            check_keywords_present(analysis_text, <<"co-investment", "participation">>)
    IN kgi_present /\ coinvestment_present

\* faulty variant: the KGI threshold is exclusive
evaluate_process_timeline_exclusive(analysis_text) ==
    LET timeline_weeks == extract_timeline_weeks(analysis_text)
        is_kgi_coinvestment == _check_kgi_coinvestment(analysis_text)
    IN
    IF is_kgi_coinvestment /\ timeline_weeks > MIN_KGI_TIMELINE_WEEKS THEN
        create_evaluation_result(MET,
            "KGI co-investment with " \o IntStr(timeline_weeks)
            \o " week timeline meets lighter diligence requirements")
    ELSE IF timeline_weeks >= MIN_TIMELINE_WEEKS THEN
        create_evaluation_result(MET,
            "Timeline of " \o IntStr(timeline_weeks)
            \o " weeks meets standard deal requirements")
    ELSE IF timeline_weeks > 0 THEN
        create_evaluation_result(NOT_MET,
            "Timeline of " \o IntStr(timeline_weeks)
            \o " weeks too short - risk of reduced diligence quality")
    ELSE
        create_evaluation_result(NOT_MET, "Timeline information absent")

evaluate_process_timeline(analysis_text) ==
    LET timeline_weeks == extract_timeline_weeks(analysis_text)
        is_kgi_coinvestment == _check_kgi_coinvestment(analysis_text)
    IN
    IF is_kgi_coinvestment /\ timeline_weeks >= MIN_KGI_TIMELINE_WEEKS THEN
        create_evaluation_result(MET,
            "KGI co-investment with " \o IntStr(timeline_weeks)
            \o " week timeline meets lighter diligence requirements")
    ELSE IF timeline_weeks >= MIN_TIMELINE_WEEKS THEN
        create_evaluation_result(MET,
            "Timeline of " \o IntStr(timeline_weeks)
            \o " weeks meets standard deal requirements")
    ELSE IF timeline_weeks > 0 THEN
        create_evaluation_result(NOT_MET,
            "Timeline of " \o IntStr(timeline_weeks)
            \o " weeks too short - risk of reduced diligence quality")
    ELSE
        create_evaluation_result(NOT_MET, "Timeline information absent")

_check_low_risk(analysis_text) ==
    check_keywords_present(analysis_text, <<"low risk", "low-risk">>)

\* faulty variant: the low-risk branch does not require IRR > 0
evaluate_return_threshold_zero_irr(analysis_text) ==
    LET irr_percentage == extract_irr_percentage(analysis_text)
        low_risk_mentioned == _check_low_risk(analysis_text)
    IN
    IF FGe(irr_percentage, MIN_IRR_THRESHOLD) THEN
        create_evaluation_result(MET,
            "IRR of " \o format_percentage(irr_percentage) \o " meets "
            \o FloatStr(MIN_IRR_THRESHOLD) \o "% threshold")
    ELSE IF FLt(irr_percentage, MIN_IRR_THRESHOLD) /\ low_risk_mentioned THEN
        create_evaluation_result(MET,
            "IRR of " \o format_percentage(irr_percentage) \o " below "
            \o FloatStr(MIN_IRR_THRESHOLD) \o "% but justified as low-risk opportunity")
    ELSE IF FGt(irr_percentage, FZero) /\ FLt(irr_percentage, MIN_IRR_THRESHOLD) THEN
        create_evaluation_result(NOT_MET,
            "IRR of " \o format_percentage(irr_percentage) \o " below "
            \o FloatStr(MIN_IRR_THRESHOLD) \o "% without low-risk justification")
    ELSE
        create_evaluation_result(NOT_MET, "Return projections not provided")

evaluate_return_threshold(analysis_text) ==
    LET irr_percentage == extract_irr_percentage(analysis_text)
        low_risk_mentioned == _check_low_risk(analysis_text)
    IN
    IF FGe(irr_percentage, MIN_IRR_THRESHOLD) THEN
        create_evaluation_result(MET,
            "IRR of " \o format_percentage(irr_percentage) \o " meets "
            \o FloatStr(MIN_IRR_THRESHOLD) \o "% threshold")
    ELSE IF FGt(irr_percentage, FZero) /\ FLt(irr_percentage, MIN_IRR_THRESHOLD)
            /\ low_risk_mentioned THEN
        create_evaluation_result(MET,
            "IRR of " \o format_percentage(irr_percentage) \o " below "
            \o FloatStr(MIN_IRR_THRESHOLD) \o "% but justified as low-risk opportunity")
    ELSE IF FGt(irr_percentage, FZero) /\ FLt(irr_percentage, MIN_IRR_THRESHOLD) THEN
        create_evaluation_result(NOT_MET,
            "IRR of " \o format_percentage(irr_percentage) \o " below "
            \o FloatStr(MIN_IRR_THRESHOLD) \o "% without low-risk justification")
    ELSE
        create_evaluation_result(NOT_MET, "Return projections not provided")

RECURSIVE FindSectorFrom(_, _)
FindSectorFrom(analysis_text, k) ==
    IF k > Len(TARGET_SECTORS) THEN ""
    ELSE IF Contains(Lower(analysis_text), TARGET_SECTORS[k]) THEN TARGET_SECTORS[k]
    ELSE FindSectorFrom(analysis_text, k + 1)

\* faulty variant: the target sector that occurs earliest in the text is returned
_find_target_sector_text_order(analysis_text) ==
    LET text_lower == Lower(analysis_text)
        starts == {i \in 1..Len(text_lower) :
                      \E k \in 1..Len(TARGET_SECTORS) :
                          StartsAt(text_lower, i, TARGET_SECTORS[k])}
    IN IF starts = {} THEN ""
       ELSE TARGET_SECTORS[CHOOSE k \in 1..Len(TARGET_SECTORS) :
                              StartsAt(text_lower, Least(starts), TARGET_SECTORS[k])]

\* for sector in TARGET_SECTORS: if sector in analysis_text.lower(): return sector
_find_target_sector(analysis_text) == FindSectorFrom(analysis_text, 1)

\* faulty variant: the opportunistic branch opens at five
evaluate_sector_focus_from_five(analysis_text, met_criteria_count) ==
    LET sector_found == _find_target_sector(analysis_text)
        consumer_found == check_keywords_present(analysis_text, EXCLUDED_SECTORS)
    IN
    IF sector_found # "" THEN
        create_evaluation_result(MET,
            "Company operates in " \o Title(sector_found) \o " - target sector")
    ELSE IF consumer_found THEN
        create_evaluation_result(NOT_MET,
            "Company in consumer or traditional infrastructure sectors")
    ELSE IF met_criteria_count >= 5 THEN
        create_evaluation_result(MET,
            "Opportunistic - meets other criteria and not in excluded sectors")
    ELSE
        create_evaluation_result(NOT_MET, "Sector information not clear")

\* faulty variant: the opportunistic branch needs more than six
evaluate_sector_focus_above_six(analysis_text, met_criteria_count) ==
    LET sector_found == _find_target_sector(analysis_text)
        consumer_found == check_keywords_present(analysis_text, EXCLUDED_SECTORS)
    IN
    IF sector_found # "" THEN
        create_evaluation_result(MET,
            "Company operates in " \o Title(sector_found) \o " - target sector")
    ELSE IF consumer_found THEN
        create_evaluation_result(NOT_MET,
            "Company in consumer or traditional infrastructure sectors")
    ELSE IF met_criteria_count > 6 THEN
        create_evaluation_result(MET,
            "Opportunistic - meets other criteria and not in excluded sectors")
    ELSE
        create_evaluation_result(NOT_MET, "Sector information not clear")

evaluate_sector_focus(analysis_text, met_criteria_count) ==
    LET sector_found == _find_target_sector(analysis_text)
        consumer_found == check_keywords_present(analysis_text, EXCLUDED_SECTORS)
    IN
    IF sector_found # "" THEN
        create_evaluation_result(MET,
            "Company operates in " \o Title(sector_found) \o " - target sector")
    ELSE IF consumer_found THEN
        create_evaluation_result(NOT_MET,
            "Company in consumer or traditional infrastructure sectors")
    ELSE IF met_criteria_count >= 6 THEN
        create_evaluation_result(MET,
            "Opportunistic - meets other criteria and not in excluded sectors")
    ELSE
        create_evaluation_result(NOT_MET, "Sector information not clear")

(***************************************************************************)
(* Analysis texts.  A text is a selection of at most MaxPicked fragments   *)
(* of one topic, or of at most MaxMemoPicked sentences of the deal memo,   *)
(* kept in their listed order and joined by single spaces.  A screening    *)
(* pass runs on any of them; a direct call takes a topic text, and         *)
(* extract_company_name a selection of the company-name fragments.         *)
(***************************************************************************)
MaxPicked     == 2
MaxMemoPicked == 7

GeographyFragments ==
    <<"GCC", "GCC joint venture", "JV partner", "expansion", "business model", "proven",
      "dividend", "dividend 0.5%", "yield 4.0%", "4.01%",
      "KGI", "co-investment", "participation">>
MilestoneFragments ==
    <<"new", "new joint venture", "jv", "EBITDA positive", "positive EBITDA",
      "within one year", "12 months", "less than a year",
      "additional funding", "more funding", "next round", "Series A">>
AssetFragments ==
    <<"venture fund", "PE fund", "hedge fund", "fund investment", "pooled investment",
      "company", "business", "startup", "direct investment">>
SyndicationFragments == <<"lead investor", "Lead Investor named", "investor">>
FeeFragments ==
    <<"no management fee", "No direct management fees", "management fee",
      "Management Fee of 2%", "fees">>
SizeFragments ==
    <<"$12", "$0m", "$0.5m", "$4.99m", "$5.0m", "$7.89 m", "$7.9M", "$8 million",
      "5m", "$5.m", "$9m, not $6m">>
TimelineFragments ==
    <<"weeks", "0 weeks", "2 weeks", "3 weeks", "7 weeks", "8 weeks", "12 week",
      "KGI co-investment", "KGI participation", "KGI", "co-investment",
      "12 weeks, not 9 weeks">>
ReturnFragments ==
    <<"IRR is high\n", "IRR 0%", "irr of 14.99%", "IRR 15.0%", "IRR 15 %", "20%",
      "low risk", "Low-Risk", "risk", "IRR 18%, not 16%">>
SectorFragments ==
    <<"industrials", "energy transition", "data economy", "Education", "healthcare",
      "consumer", "Traditional Infrastructure", "infrastructure", "sector">>

YieldFragments ==
    <<"0.5% dividend, yield of 6%", "0.5%", "1%", "1.0 %", "1.01%", "yield of 3.5",
      "6%", "12.5%", "dividend">>

\* texts around a company name
NameFragments ==
    <<"Target:", "Company name: Acme Corp", "COMPANY NAME\tBeta Ltd. Bahrain",
      "company name", "Company Name:", "company name::", ".", "\n", "\nSector: healthcare",
      "name: Gamma">>

Topics ==
    <<GeographyFragments, MilestoneFragments, AssetFragments, SyndicationFragments,
      FeeFragments, SizeFragments, TimelineFragments, ReturnFragments, SectorFragments,
      YieldFragments>>

\* one sentence per criterion that can fail, and the three kinds of sector
DealMemo ==
    <<"KGI co-investment opportunity.", "Already EBITDA positive.",
      "Direct investment in a startup.", "No management fee applies.",
      "Ticket of $8m.", "Closing in 8 weeks.", "Projected IRR 20%.",
      "Healthcare sector.", "Consumer goods.">>

RECURSIVE JoinPicked(_, _, _)
\* the fragments of doc whose index is in picked, from index k on, joined by " "
JoinPicked(doc, picked, k) ==
    IF k > Len(doc) THEN ""
    ELSE IF k \in picked
         THEN (IF \E j \in picked : j > k
               THEN doc[k] \o " " \o JoinPicked(doc, picked, k + 1)
               ELSE doc[k])
         ELSE JoinPicked(doc, picked, k + 1)

\* the selections of the first `upto` fragments with at most `most` of them picked
RECURSIVE Picks(_, _)
Picks(upto, most) ==
    IF upto = 0 \/ most = 0 THEN {{}}
    ELSE Picks(upto - 1, most) \cup {p \cup {upto} : p \in Picks(upto - 1, most - 1)}

TextsOf(doc, most) == {JoinPicked(doc, picked, 1) : picked \in Picks(Len(doc), most)}

TopicTexts == UNION {TextsOf(Topics[t], MaxPicked) : t \in 1..Len(Topics)}
MemoTexts  == TextsOf(DealMemo, MaxMemoPicked)
Texts      == MemoTexts \cup TopicTexts
\* the texts extract_company_name is called on
CompanyTexts == TextsOf(NameFragments, MaxPicked)

(***************************************************************************)
(* State                                                                   *)
(***************************************************************************)
VARIABLES
    analysis_text,          \* detailed_analysis, the text under evaluation
    pc,                     \* the next statement of the screening pass
    criteria_evaluations,   \* the dict built by _evaluate_all_criteria
    met_count,              \* the local met_count of _evaluate_all_criteria
    report,                 \* what _generate_final_report computes from the dict
    call,                   \* a direct call of one function and what it returned
    workflow,               \* the locals of execute_workflow and the client calls made
    polling                 \* the locals of analyze_documents_with_polling

vars == <<analysis_text, pc, criteria_evaluations, met_count, report, call,
          workflow, polling>>

EIGHT_CRITERIA ==
    <<"Geography/Structure", "Financial Milestones", "Asset Class Exclusion",
      "Investor Syndication", "Fee Terms", "Investment Size", "Process Timeline",
      "Return Threshold">>
SECTOR_FOCUS == "Sector Focus"

None == "None"
NoReport == [met_count |-> None, total_count |-> None, overall_recommendation |-> None]
NoCall ==
    [fn |-> None, analysis_text |-> None, met_criteria_count |-> None,
     met_count |-> None, total_count |-> None, ret |-> None]
\* JSON values as the client hands them over: a string, a non-empty object, or
\* nothing (the key is absent)
JsonStr(s) == [type |-> "str", value |-> s]
JsonDict   == [type |-> "dict", value |-> ""]
JsonAbsent == [type |-> "NoneType", value |-> ""]
\* bool(v)
Truthy(v) == v.type = "dict" \/ (v.type = "str" /\ v.value # "")
\* d.get(k, default)
Get(d, k, default) == IF k \in DOMAIN d THEN d[k] ELSE default
EmptyDict == [k \in {} |-> JsonAbsent]

\* how a call ended: it has not, it returned value, or it raised Exception(error)
NoOutcome == [kind |-> "none", value |-> JsonAbsent, error |-> ""]
Returns(value) == [kind |-> "return", value |-> value, error |-> ""]
Raises(error)  == [kind |-> "raise", value |-> JsonAbsent, error |-> error]
NoResponse == [status |-> 0, json |-> EmptyDict]

\* execute_workflow has not been called
NoWorkflow ==
    [at |-> "idle", attached_file_ids |-> <<>>, response |-> NoResponse,
     document_ids |-> <<>>, analysis_results |-> <<>>,
     detailed_analysis |-> JsonAbsent, company_name |-> None,
     started |-> <<>>, client_calls |-> <<>>, ret |-> None]
\* analyze_documents_with_polling is not running
NoPolling ==
    [at |-> "idle", document_ids |-> <<>>, elapsed |-> 0, polls |-> 0,
     response |-> NoResponse, outcome |-> NoOutcome]

\* d[k] = v
DictSet(d, k, v) == [c \in DOMAIN d \cup {k} |-> IF c = k THEN v ELSE d[c]]

(***************************************************************************)
(* workflows/investment_screening.py: one screening pass                   *)
(***************************************************************************)
Init ==
    /\ analysis_text \in Texts
    /\ pc = "Geography/Structure"
    /\ criteria_evaluations = [c \in {} |-> None]
    /\ met_count = None
    /\ report = NoReport
    /\ call = NoCall
    /\ workflow = NoWorkflow
    /\ polling = NoPolling

\* criteria_evaluations[name] = verdict, then on to the statement `next`
Assign(name, verdict, next) ==
    /\ pc = name
    /\ criteria_evaluations' = DictSet(criteria_evaluations, name, verdict)
    /\ pc' = next
    /\ UNCHANGED <<analysis_text, met_count, report, call, workflow, polling>>

EvaluateGeographyStructure ==
    Assign("Geography/Structure", evaluate_geography_structure(analysis_text),
           "Financial Milestones")

EvaluateFinancialMilestones ==
    Assign("Financial Milestones", evaluate_financial_milestones(analysis_text),
           "Asset Class Exclusion")

EvaluateAssetClassExclusion ==
    Assign("Asset Class Exclusion", evaluate_asset_class_exclusion(analysis_text),
           "Investor Syndication")

EvaluateInvestorSyndication ==
    Assign("Investor Syndication", evaluate_investor_syndication(analysis_text),
           "Fee Terms")

EvaluateFeeTerms ==
    Assign("Fee Terms", evaluate_fee_terms(analysis_text), "Investment Size")

EvaluateInvestmentSize ==
    Assign("Investment Size", evaluate_investment_size(analysis_text), "Process Timeline")

EvaluateProcessTimeline ==
    Assign("Process Timeline", evaluate_process_timeline(analysis_text),
           "Return Threshold")

EvaluateReturnThreshold ==
    Assign("Return Threshold", evaluate_return_threshold(analysis_text), "count")

\* faulty variant: counting rewrites the status of the verdicts it visits
CountMet_normalising ==
    /\ pc = "count"
    /\ met_count' = count_met_criteria(criteria_evaluations)
    /\ criteria_evaluations' =
           [c \in DOMAIN criteria_evaluations |->
               [criteria_evaluations[c] EXCEPT
                   !.status = IF @ = NOT_MET THEN "NOT_MET" ELSE @]]
    /\ pc' = SECTOR_FOCUS
    /\ UNCHANGED <<analysis_text, report, call, workflow, polling>>

\* met_count = count_met_criteria(criteria_evaluations)
CountMet ==
    /\ pc = "count"
    /\ met_count' = count_met_criteria(criteria_evaluations)
    /\ pc' = SECTOR_FOCUS
    /\ UNCHANGED <<analysis_text, criteria_evaluations, report, call, workflow, polling>>

\* criteria_evaluations["Sector Focus"] = evaluate_sector_focus(detailed_analysis, met_count)
EvaluateSectorFocus ==
    /\ pc = SECTOR_FOCUS
    /\ criteria_evaluations' =
           DictSet(criteria_evaluations, SECTOR_FOCUS,
                   evaluate_sector_focus(analysis_text, met_count))
    /\ pc' = "report"
    /\ UNCHANGED <<analysis_text, met_count, report, call, workflow, polling>>

\* the counting and the recommendation of _generate_final_report
GenerateFinalReport ==
    /\ pc = "report"
    /\ report' =
        LET final_count == count_met_criteria(criteria_evaluations)
            total_count == Cardinality(DOMAIN criteria_evaluations)
        IN [met_count |-> final_count,
            total_count |-> total_count,
            overall_recommendation |->
                generate_overall_recommendation(final_count, total_count)]
    /\ pc' = "done"
    /\ UNCHANGED <<analysis_text, criteria_evaluations, met_count, call, workflow, polling>>

Next ==
    \/ EvaluateGeographyStructure
    \/ EvaluateFinancialMilestones
    \/ EvaluateAssetClassExclusion
    \/ EvaluateInvestorSyndication
    \/ EvaluateFeeTerms
    \/ EvaluateInvestmentSize
    \/ EvaluateProcessTimeline
    \/ EvaluateReturnThreshold
    \/ CountMet
    \/ EvaluateSectorFocus
    \/ GenerateFinalReport

Spec == Init /\ [][Next]_vars

(***************************************************************************)
(* Direct calls: one function of evaluator.py or helpers.py is applied to  *)
(* arguments drawn from the input sets, and what it returns is recorded.   *)
(***************************************************************************)
MaxMetCriteriaCount == 8    \* met_criteria_count ranges over 0..MaxMetCriteriaCount
MaxRecommendCount   == 9    \* met_count of the recommendation over 0..MaxRecommendCount
MaxTotalCount       == 9    \* total_count over 0..MaxTotalCount

InitDirect ==
    /\ analysis_text = None
    /\ pc = "direct"
    /\ criteria_evaluations = [c \in {} |-> None]
    /\ met_count = None
    /\ report = NoReport
    /\ call = NoCall
    /\ workflow = NoWorkflow
    /\ polling = NoPolling

\* fn(text) is called and returns ret
CallOnText(fn, text, ret) ==
    /\ call' = [NoCall EXCEPT !.fn = fn, !.analysis_text = text, !.ret = ret]
    /\ UNCHANGED <<analysis_text, pc, criteria_evaluations, met_count, report, workflow, polling>>

CallGeographyStructure ==
    /\ call.fn = None
    /\ \E t \in TopicTexts :
           CallOnText("evaluate_geography_structure", t, evaluate_geography_structure(t))

CallFinancialMilestones ==
    /\ call.fn = None
    /\ \E t \in TopicTexts :
           CallOnText("evaluate_financial_milestones", t, evaluate_financial_milestones(t))

CallAssetClassExclusion ==
    /\ call.fn = None
    /\ \E t \in TopicTexts :
           CallOnText("evaluate_asset_class_exclusion", t, evaluate_asset_class_exclusion(t))

CallInvestorSyndication ==
    /\ call.fn = None
    /\ \E t \in TopicTexts :
           CallOnText("evaluate_investor_syndication", t, evaluate_investor_syndication(t))

CallFeeTerms ==
    /\ call.fn = None
    /\ \E t \in TopicTexts :
           CallOnText("evaluate_fee_terms", t, evaluate_fee_terms(t))

CallInvestmentSize ==
    /\ call.fn = None
    /\ \E t \in TopicTexts :
           CallOnText("evaluate_investment_size", t, evaluate_investment_size(t))

CallProcessTimeline ==
    /\ call.fn = None
    /\ \E t \in TopicTexts :
           CallOnText("evaluate_process_timeline", t, evaluate_process_timeline(t))

CallReturnThreshold ==
    /\ call.fn = None
    /\ \E t \in TopicTexts :
           CallOnText("evaluate_return_threshold", t, evaluate_return_threshold(t))

CallSectorFocus ==
    /\ call.fn = None
    /\ \E t \in TopicTexts, m \in 0..MaxMetCriteriaCount :
        /\ call' = [NoCall EXCEPT !.fn = "evaluate_sector_focus",
                                  !.analysis_text = t,
                                  !.met_criteria_count = m,
                                  !.ret = evaluate_sector_focus(t, m)]
        /\ UNCHANGED <<analysis_text, pc, criteria_evaluations, met_count, report, workflow, polling>>

CallOverallRecommendation ==
    /\ call.fn = None
    /\ \E m \in 0..MaxRecommendCount, total \in 0..MaxTotalCount :
        /\ call' = [NoCall EXCEPT !.fn = "generate_overall_recommendation",
                                  !.met_count = m,
                                  !.total_count = total,
                                  !.ret = generate_overall_recommendation(m, total)]
        /\ UNCHANGED <<analysis_text, pc, criteria_evaluations, met_count, report, workflow, polling>>

CallExtractInvestmentAmount ==
    /\ call.fn = None
    /\ \E t \in TopicTexts :
           CallOnText("extract_investment_amount", t, extract_investment_amount(t))

CallExtractTimelineWeeks ==
    /\ call.fn = None
    /\ \E t \in TopicTexts :
           CallOnText("extract_timeline_weeks", t, extract_timeline_weeks(t))

CallExtractIrrPercentage ==
    /\ call.fn = None
    /\ \E t \in TopicTexts :
           CallOnText("extract_irr_percentage", t, extract_irr_percentage(t))

CallExtractYieldPercentage ==
    /\ call.fn = None
    /\ \E t \in TopicTexts :
           CallOnText("extract_yield_percentage", t, extract_yield_percentage(t))

CallExtractCompanyName ==
    /\ call.fn = None
    /\ \E t \in CompanyTexts :
           CallOnText("extract_company_name", t, extract_company_name(t))

NextDirect ==
    \/ CallGeographyStructure
    \/ CallFinancialMilestones
    \/ CallAssetClassExclusion
    \/ CallInvestorSyndication
    \/ CallFeeTerms
    \/ CallInvestmentSize
    \/ CallProcessTimeline
    \/ CallReturnThreshold
    \/ CallSectorFocus
    \/ CallOverallRecommendation
    \/ CallExtractInvestmentAmount
    \/ CallExtractTimelineWeeks
    \/ CallExtractIrrPercentage
    \/ CallExtractYieldPercentage
    \/ CallExtractCompanyName

SpecDirect == InitDirect /\ [][NextDirect]_vars

(***************************************************************************)
(* Two screening passes whose statements interleave.  Each pass has its    *)
(* own locals, so in this specification analysis_text, pc,                 *)
(* criteria_evaluations, met_count and report are functions from the pass  *)
(* to the value of that local.                                             *)
(***************************************************************************)
Passes == {1, 2}

\* the memo cut after a sentence, or its last sentence alone
PassTexts ==
    {JoinPicked(DealMemo, 1..k, 1) : k \in 0..Len(DealMemo)}
    \cup {DealMemo[Len(DealMemo)]}

InitTwoPasses ==
    /\ analysis_text \in [Passes -> PassTexts]
    /\ pc = [p \in Passes |-> "Geography/Structure"]
    /\ criteria_evaluations = [p \in Passes |-> [c \in {} |-> None]]
    /\ met_count = [p \in Passes |-> None]
    /\ report = [p \in Passes |-> NoReport]
    /\ call = NoCall
    /\ workflow = NoWorkflow
    /\ polling = NoPolling

\* faulty variant: criteria_evaluations is one module-level dict that every pass
\* writes into
PassAssign_shared_registry(p, name, verdict, next) ==
    /\ pc[p] = name
    /\ criteria_evaluations' =
           [q \in Passes |-> DictSet(criteria_evaluations[q], name, verdict)]
    /\ pc' = [pc EXCEPT ![p] = next]
    /\ UNCHANGED <<analysis_text, met_count, report, call, workflow, polling>>

\* pass p: criteria_evaluations[name] = verdict, then on to the statement `next`
PassAssign(p, name, verdict, next) ==
    /\ pc[p] = name
    /\ criteria_evaluations' =
           [criteria_evaluations EXCEPT ![p] = DictSet(@, name, verdict)]
    /\ pc' = [pc EXCEPT ![p] = next]
    /\ UNCHANGED <<analysis_text, met_count, report, call, workflow, polling>>

PassEvaluateGeographyStructure(p) ==
    PassAssign(p, "Geography/Structure",
               evaluate_geography_structure(analysis_text[p]), "Financial Milestones")

PassEvaluateFinancialMilestones(p) ==
    PassAssign(p, "Financial Milestones",
               evaluate_financial_milestones(analysis_text[p]), "Asset Class Exclusion")

PassEvaluateAssetClassExclusion(p) ==
    PassAssign(p, "Asset Class Exclusion",
               evaluate_asset_class_exclusion(analysis_text[p]), "Investor Syndication")

PassEvaluateInvestorSyndication(p) ==
    PassAssign(p, "Investor Syndication",
               evaluate_investor_syndication(analysis_text[p]), "Fee Terms")

PassEvaluateFeeTerms(p) ==
    PassAssign(p, "Fee Terms", evaluate_fee_terms(analysis_text[p]), "Investment Size")

PassEvaluateInvestmentSize(p) ==
    PassAssign(p, "Investment Size",
               evaluate_investment_size(analysis_text[p]), "Process Timeline")

PassEvaluateProcessTimeline(p) ==
    PassAssign(p, "Process Timeline",
               evaluate_process_timeline(analysis_text[p]), "Return Threshold")

PassEvaluateReturnThreshold(p) ==
    PassAssign(p, "Return Threshold", evaluate_return_threshold(analysis_text[p]), "count")

PassCountMet(p) ==
    /\ pc[p] = "count"
    /\ met_count' = [met_count EXCEPT ![p] = count_met_criteria(criteria_evaluations[p])]
    /\ pc' = [pc EXCEPT ![p] = SECTOR_FOCUS]
    /\ UNCHANGED <<analysis_text, criteria_evaluations, report, call, workflow, polling>>

PassEvaluateSectorFocus(p) ==
    /\ pc[p] = SECTOR_FOCUS
    /\ criteria_evaluations' =
           [criteria_evaluations EXCEPT
               ![p] = DictSet(@, SECTOR_FOCUS,
                              evaluate_sector_focus(analysis_text[p], met_count[p]))]
    /\ pc' = [pc EXCEPT ![p] = "report"]
    /\ UNCHANGED <<analysis_text, met_count, report, call, workflow, polling>>

PassGenerateFinalReport(p) ==
    /\ pc[p] = "report"
    /\ report' =
        [report EXCEPT ![p] =
            LET final_count == count_met_criteria(criteria_evaluations[p])
                total_count == Cardinality(DOMAIN criteria_evaluations[p])
            IN [met_count |-> final_count,
                total_count |-> total_count,
                overall_recommendation |->
                    generate_overall_recommendation(final_count, total_count)]]
    /\ pc' = [pc EXCEPT ![p] = "done"]
    /\ UNCHANGED <<analysis_text, criteria_evaluations, met_count, call, workflow, polling>>

NextTwoPasses ==
    \E p \in Passes :
        \/ PassEvaluateGeographyStructure(p)
        \/ PassEvaluateFinancialMilestones(p)
        \/ PassEvaluateAssetClassExclusion(p)
        \/ PassEvaluateInvestorSyndication(p)
        \/ PassEvaluateFeeTerms(p)
        \/ PassEvaluateInvestmentSize(p)
        \/ PassEvaluateProcessTimeline(p)
        \/ PassEvaluateReturnThreshold(p)
        \/ PassCountMet(p)
        \/ PassEvaluateSectorFocus(p)
        \/ PassGenerateFinalReport(p)

SpecTwoPasses == InitTwoPasses /\ [][NextTwoPasses]_vars

(***************************************************************************)
(* workflows/investment_screening.py and clients/paradigm_client.py: one   *)
(* call of execute_workflow. The client's answers are the inputs: every    *)
(* action named ...Responds takes one answer and runs the code up to the   *)
(* next await. The position of the call is workflow.at, that of the        *)
(* polling loop is polling.at; _evaluate_all_criteria is the screening     *)
(* pass above, so pc walks its assignments once the pass has begun.        *)
(***************************************************************************)
MAX_WAIT_TIME           == 300
POLL_INTERVAL           == 5
MAX_DOCUMENTS_PER_BATCH == 5

MaxDocuments == 6    \* document_search finds up to MaxDocuments documents

NO_DOCUMENT_ERROR ==
    "Error: No investment opportunity document provided. Please attach the document to analyze."
NOT_RETRIEVED_ERROR == "Error: Could not retrieve the investment opportunity document."
SEARCH_ERROR     == "Error during document search"
ANALYSIS_ERROR   == "Error during document analysis"
EVALUATION_ERROR == "Error during criteria evaluation"
REPORT_ERROR     == "Error during report generation"

COMPLETED_STATUSES == {"completed", "complete", "finished", "success"}
FAILED_STATUSES    == {"failed", "error"}

\* the module global attached_file_ids: absent or empty, or a list of file ids
AttachedFileIds == {<<>>, <<101>>, <<101, 102>>}
\* the body of an error response
ERROR_TEXT == "unavailable"
\* the lists of documents a search answers with; the last holds a document
\* without an id
DocumentLists ==
    {[i \in 1..n |-> [id |-> i]] :
        n \in {0, 1, MAX_DOCUMENTS_PER_BATCH, MaxDocuments}}
    \cup {<<[id |-> 1], [name |-> 2]>>}
SearchResponses ==
    {[status |-> 503, json |-> EmptyDict], [status |-> 200, json |-> EmptyDict]}
    \cup {[status |-> 200, json |-> [documents |-> d]] : d \in DocumentLists}
StartStatuses == {200, 500}
\* what an analysis can come back as
ShortAnalysis == JoinPicked(DealMemo, 1..2, 1)
LongAnalysis  == "Company name: Acme Corp. " \o JoinPicked(DealMemo, 1..4, 1)
\* a JSON object with the keys whose value is given
JsonObject(full) == [k \in {j \in DOMAIN full : full[j] # JsonAbsent} |-> full[k]]
PollBodies ==
    {JsonObject([status |-> JsonStr(st), result |-> rd[1], detailed_analysis |-> rd[2]]) :
        st \in {"completed", "Finished"},
        rd \in {<<JsonAbsent, JsonAbsent>>,
                <<JsonStr(""), JsonStr(ShortAnalysis)>>,
                <<JsonStr(LongAnalysis), JsonStr(ShortAnalysis)>>,
                <<JsonDict, JsonAbsent>>}}
    \cup {JsonObject([status |-> st, result |-> JsonAbsent, detailed_analysis |-> JsonAbsent]) :
            st \in {JsonStr("failed"), JsonStr("ERROR"), JsonStr("processing"), JsonAbsent}}
PollResponses ==
    {[status |-> 404, json |-> EmptyDict], [status |-> 500, json |-> EmptyDict]}
    \cup {[status |-> 200, json |-> b] : b \in PollBodies}
REPORT_TEXT == "# INVESTMENT OPPORTUNITY SCREENING REPORT"
ChatResponses ==
    {[status |-> 200, json |-> [choices |-> <<[message |-> [content |-> REPORT_TEXT]]>>]],
     [status |-> 200, json |-> EmptyDict],
     [status |-> 500, json |-> EmptyDict]}

\* a count that is not bound yet is -1 here, so that the counts stay integers
\* throughout the call
InitWorkflow ==
    /\ analysis_text = None
    /\ pc = "execute_workflow"
    /\ criteria_evaluations = [c \in {} |-> None]
    /\ met_count = -1
    /\ report = [NoReport EXCEPT !.met_count = -1, !.total_count = -1]
    /\ call = NoCall
    /\ workflow \in {[NoWorkflow EXCEPT !.at = "start", !.attached_file_ids = ids] :
                        ids \in AttachedFileIds}
    /\ polling = NoPolling

\* except Exception as e: return f"<prefix>: {str(e)}"
Caught(w, prefix, e) == [w EXCEPT !.at = "returned", !.ret = prefix \o ": " \o e]

\* the start of execute_workflow up to the await of the search
ExecuteWorkflow ==
    /\ workflow.at = "start"
    /\ workflow' =
        IF workflow.attached_file_ids = <<>>
        THEN [workflow EXCEPT !.at = "returned", !.ret = NO_DOCUMENT_ERROR]
        ELSE [workflow EXCEPT !.at = "search",
                              !.started = Append(@, "search"),
                              !.client_calls = Append(@, "document_search")]
    /\ UNCHANGED <<analysis_text, pc, criteria_evaluations, met_count, report, call, polling>>

\* ParadigmClient.document_search on the response
document_search(response) ==
    IF response.status = 200
    THEN Returns(response.json)
    ELSE Raises("API error " \o IntStr(response.status) \o ": " \o ERROR_TEXT)

\* the search answers: the rest of the first try block
SearchResponds ==
    /\ workflow.at = "search"
    /\ \E response \in SearchResponses :
        LET search_result == document_search(response)
            w == [workflow EXCEPT !.response = response]
            documents == Get(search_result.value, "documents", <<>>)
        IN workflow' =
            IF search_result.kind = "raise" THEN Caught(w, SEARCH_ERROR, search_result.error)
            ELSE IF Len(documents) = 0
                 THEN [w EXCEPT !.at = "returned", !.ret = NOT_RETRIEVED_ERROR]
            ELSE IF \E i \in 1..Len(documents) : "id" \notin DOMAIN documents[i]
                 THEN Caught(w, SEARCH_ERROR, "'id'")
            ELSE [w EXCEPT !.at = "analyze",
                           !.document_ids =
                               [i \in 1..Len(documents) |-> IntStr(documents[i].id)]]
    /\ UNCHANGED <<analysis_text, pc, criteria_evaluations, met_count, report, call, polling>>

\* the batch _analyze_documents sends after `done` results have come back
Batch(document_ids, done) ==
    IF Len(document_ids) > MAX_DOCUMENTS_PER_BATCH
    THEN LET i == done * MAX_DOCUMENTS_PER_BATCH
             last == IF i + MAX_DOCUMENTS_PER_BATCH < Len(document_ids)
                     THEN i + MAX_DOCUMENTS_PER_BATCH ELSE Len(document_ids)
         IN SubSeq(document_ids, i + 1, last)
    ELSE document_ids
\* the number of calls _analyze_documents makes for the documents
Batches(document_ids) ==
    IF Len(document_ids) > MAX_DOCUMENTS_PER_BATCH
    THEN (Len(document_ids) + MAX_DOCUMENTS_PER_BATCH - 1) \div MAX_DOCUMENTS_PER_BATCH
    ELSE 1

\* analyze_documents_with_polling is called: its start request is sent
BeginPolling(document_ids) ==
    [NoPolling EXCEPT !.at = "start", !.document_ids = document_ids]

\* the second try block begins: _analyze_documents sends its first batch
AnalyzeDocuments ==
    /\ workflow.at = "analyze"
    /\ workflow' = [workflow EXCEPT !.at = "analyzing",
                                    !.started = Append(@, "analyze"),
                                    !.client_calls = Append(@, "analyze_documents_with_polling")]
    /\ polling' = BeginPolling(Batch(workflow.document_ids, 0))
    /\ UNCHANGED <<analysis_text, pc, criteria_evaluations, met_count, report, call>>

\* faulty variant: the loop also runs when elapsed has reached MAX_WAIT_TIME
PollOrTimeOut_inclusive(p) ==
    IF p.elapsed <= MAX_WAIT_TIME
    THEN [p EXCEPT !.at = "poll", !.polls = @ + 1]
    ELSE [p EXCEPT !.at = "raised", !.outcome = Raises("Analysis timed out")]

\* while elapsed < MAX_WAIT_TIME: the next poll is sent, or the loop is left
PollOrTimeOut(p) ==
    IF p.elapsed < MAX_WAIT_TIME
    THEN [p EXCEPT !.at = "poll", !.polls = @ + 1]
    ELSE [p EXCEPT !.at = "raised", !.outcome = Raises("Analysis timed out")]

\* the start request answers
StartResponds ==
    /\ workflow.at = "analyzing"
    /\ polling.at = "start"
    /\ \E status \in StartStatuses :
        polling' =
            IF status = 200
            THEN PollOrTimeOut([polling EXCEPT !.elapsed = 0])
            ELSE [polling EXCEPT !.at = "raised",
                                 !.outcome = Raises("Analysis API error " \o IntStr(status)
                                                    \o ": " \o ERROR_TEXT)]
    /\ UNCHANGED <<analysis_text, pc, criteria_evaluations, met_count, report, call, workflow>>

\* a or b or c
Or3(a, b, c) == IF Truthy(a) THEN a ELSE IF Truthy(b) THEN b ELSE c

\* the body of the polling loop on the response to one poll
PollStep(p, response) ==
    LET result == response.json
        status == Get(result, "status", JsonStr("")).value
        q == [p EXCEPT !.response = response]
        sleep == PollOrTimeOut([q EXCEPT !.elapsed = @ + POLL_INTERVAL])
    IN IF response.status = 200
       THEN IF Lower(status) \in COMPLETED_STATUSES
            THEN [q EXCEPT !.at = "returned",
                           !.outcome = Returns(Or3(Get(result, "result", JsonAbsent),
                                                   Get(result, "detailed_analysis", JsonAbsent),
                                                   JsonStr("Analysis completed")))]
            ELSE IF Lower(status) \in FAILED_STATUSES
            THEN [q EXCEPT !.at = "raised",
                           !.outcome = Raises("Analysis failed: " \o status)]
            ELSE sleep
       ELSE IF response.status = 404
       THEN sleep
       ELSE [q EXCEPT !.at = "raised",
                      !.outcome = Raises("Polling API error " \o IntStr(response.status)
                                         \o ": " \o ERROR_TEXT)]

\* a poll answers
PollResponds ==
    /\ workflow.at = "analyzing"
    /\ polling.at = "poll"
    /\ \E response \in PollResponses : polling' = PollStep(polling, response)
    /\ UNCHANGED <<analysis_text, pc, criteria_evaluations, met_count, report, call, workflow>>

\* "\n\n".join(analysis_results)
RECURSIVE JoinResults(_, _)
JoinResults(analysis_results, k) ==
    IF k > Len(analysis_results) THEN Returns(JsonStr(""))
    ELSE IF analysis_results[k].type # "str"
    THEN Raises("sequence item " \o IntStr(k - 1) \o ": expected str instance, "
                \o analysis_results[k].type \o " found")
    ELSE LET rest == JoinResults(analysis_results, k + 1) IN
         IF rest.kind = "raise" THEN rest
         ELSE IF k = Len(analysis_results) THEN Returns(analysis_results[k])
         ELSE Returns(JsonStr(analysis_results[k].value \o "\n\n" \o rest.value.value))

\* analyze_documents_with_polling has ended and its locals are gone:
\* _analyze_documents goes on with the next batch or returns, and the second try
\* block ends
AnalyzeResumes ==
    /\ workflow.at = "analyzing"
    /\ polling.at \in {"returned", "raised"}
    /\ LET analysis_results == Append(workflow.analysis_results, polling.outcome.value)
           w == [workflow EXCEPT !.analysis_results = analysis_results]
           detailed_analysis ==
               IF Len(workflow.document_ids) > MAX_DOCUMENTS_PER_BATCH
               THEN JoinResults(analysis_results, 1)
               ELSE polling.outcome
       IN IF polling.outcome.kind = "raise"
          THEN /\ workflow' = Caught(workflow, ANALYSIS_ERROR, polling.outcome.error)
               /\ polling' = NoPolling
          ELSE IF Len(analysis_results) < Batches(workflow.document_ids)
          THEN /\ workflow' = [w EXCEPT !.client_calls =
                                            Append(@, "analyze_documents_with_polling")]
               /\ polling' = BeginPolling(Batch(workflow.document_ids, Len(analysis_results)))
          ELSE IF detailed_analysis.kind = "raise"
          THEN /\ workflow' = Caught(w, ANALYSIS_ERROR, detailed_analysis.error)
               /\ polling' = NoPolling
          ELSE /\ workflow' = [w EXCEPT !.at = "evaluate",
                                        !.detailed_analysis = detailed_analysis.value]
               /\ polling' = NoPolling
    /\ UNCHANGED <<analysis_text, pc, criteria_evaluations, met_count, report, call>>

\* the third try block begins: _evaluate_all_criteria is called, and its first
\* evaluator calls lower() on what it is given, which only a string has
EvaluateAllCriteria ==
    /\ workflow.at = "evaluate"
    /\ LET w == [workflow EXCEPT !.started = Append(@, "evaluate")] IN
       IF workflow.detailed_analysis.type # "str"
       THEN /\ workflow' = Caught(w, EVALUATION_ERROR,
                                  "'" \o workflow.detailed_analysis.type
                                  \o "' object has no attribute 'lower'")
            /\ UNCHANGED <<analysis_text, pc>>
       ELSE /\ workflow' = [w EXCEPT !.at = "evaluating"]
            /\ analysis_text' = workflow.detailed_analysis.value
            /\ pc' = "Geography/Structure"
    /\ UNCHANGED <<criteria_evaluations, met_count, report, call, polling>>

\* _evaluate_all_criteria has returned and the fourth try block begins:
\* _generate_final_report up to its chat completion
GenerateReportPrompt ==
    /\ workflow.at = "evaluating"
    /\ pc = "report"
    /\ workflow' = [workflow EXCEPT !.at = "chat",
                                    !.started = Append(@, "report"),
                                    !.company_name = extract_company_name(analysis_text),
                                    !.client_calls = Append(@, "chat_completion")]
    /\ report' =
        LET final_count == count_met_criteria(criteria_evaluations)
            total_count == Cardinality(DOMAIN criteria_evaluations)
        IN [met_count |-> final_count,
            total_count |-> total_count,
            overall_recommendation |->
                generate_overall_recommendation(final_count, total_count)]
    /\ pc' = "done"
    /\ UNCHANGED <<analysis_text, criteria_evaluations, met_count, call, polling>>

\* ParadigmClient.chat_completion on the response
chat_completion(response) ==
    IF response.status = 200
    THEN IF "choices" \in DOMAIN response.json
         THEN Returns(response.json.choices[1].message.content)
         ELSE Raises("'choices'")
    ELSE Raises("Paradigm chat completion API error " \o IntStr(response.status)
                \o ": " \o ERROR_TEXT)

\* faulty variant: a failed chat completion is not caught
ChatResponds_uncaught ==
    /\ workflow.at = "chat"
    /\ \E response \in ChatResponses :
        LET final_report == chat_completion(response)
            w == [workflow EXCEPT !.response = response]
        IN workflow' =
            IF final_report.kind = "raise"
            THEN [w EXCEPT !.at = "raised", !.ret = final_report.error]
            ELSE [w EXCEPT !.at = "returned", !.ret = final_report.value]
    /\ UNCHANGED <<analysis_text, pc, criteria_evaluations, met_count, report, call, polling>>

\* the chat completion answers: the report is returned, or the error is
ChatResponds ==
    /\ workflow.at = "chat"
    /\ \E response \in ChatResponses :
        LET final_report == chat_completion(response)
            w == [workflow EXCEPT !.response = response]
        IN workflow' =
            IF final_report.kind = "raise"
            THEN Caught(w, REPORT_ERROR, final_report.error)
            ELSE [w EXCEPT !.at = "returned", !.ret = final_report.value]
    /\ UNCHANGED <<analysis_text, pc, criteria_evaluations, met_count, report, call, polling>>

NextWorkflow ==
    \/ ExecuteWorkflow
    \/ SearchResponds
    \/ AnalyzeDocuments
    \/ StartResponds
    \/ PollResponds
    \/ AnalyzeResumes
    \/ EvaluateAllCriteria
    \/ EvaluateGeographyStructure
    \/ EvaluateFinancialMilestones
    \/ EvaluateAssetClassExclusion
    \/ EvaluateInvestorSyndication
    \/ EvaluateFeeTerms
    \/ EvaluateInvestmentSize
    \/ EvaluateProcessTimeline
    \/ EvaluateReturnThreshold
    \/ CountMet
    \/ EvaluateSectorFocus
    \/ GenerateReportPrompt
    \/ ChatResponds

SpecWorkflow == InitWorkflow /\ [][NextWorkflow]_vars

\* every response the client waits for arrives
SpecWorkflowFair ==
    /\ InitWorkflow
    /\ [][NextWorkflow]_vars
    /\ WF_<<workflow, polling>>(StartResponds)
    /\ WF_<<workflow, polling>>(PollResponds)

(***************************************************************************)
(* Properties                                                              *)
(***************************************************************************)
\* a phrase is present: case-insensitive substring of the text
Present(text, phrase) == Contains(Lower(text), phrase)
AnyPresent(text, phrases) == \E k \in 1..Len(phrases) : Present(text, phrases[k])

Returned(fn) == call.fn = fn

\* the number of MET verdicts among the eight context-free criteria
MetAmongEight ==
    Cardinality({k \in 1..Len(EIGHT_CRITERIA) :
                    /\ EIGHT_CRITERIA[k] \in DOMAIN criteria_evaluations
                    /\ criteria_evaluations[EIGHT_CRITERIA[k]].status = MET})

\* the criteria evaluated so far are the first k of the registry order
EvaluatedInOrder ==
    \E k \in 0..Len(EIGHT_CRITERIA) :
        DOMAIN criteria_evaluations \ {SECTOR_FOCUS} = {EIGHT_CRITERIA[j] : j \in 1..k}

\* C1: in a screening pass the eight context-free criteria are evaluated first and
\* Sector Focus last, and the count handed to evaluate_sector_focus is the number
\* of MET verdicts among the other eight of that pass.
C1_SectorFocusReceivesCountOfOtherEight ==
    /\ EvaluatedInOrder
    /\ pc \in {"count", SECTOR_FOCUS} =>
           DOMAIN criteria_evaluations = {EIGHT_CRITERIA[j] : j \in 1..Len(EIGHT_CRITERIA)}
    /\ pc = SECTOR_FOCUS => met_count = MetAmongEight
    /\ SECTOR_FOCUS \in DOMAIN criteria_evaluations =>
           /\ \A j \in 1..Len(EIGHT_CRITERIA) :
                  EIGHT_CRITERIA[j] \in DOMAIN criteria_evaluations
           /\ met_count = MetAmongEight
           /\ criteria_evaluations[SECTOR_FOCUS] =
                  evaluate_sector_focus(analysis_text, MetAmongEight)

\* a pass in which six of the other eight are MET and Sector Focus, itself MET on
\* the strength of that count, was handed 6 and not 7
C1_Witness ==
    /\ pc = "done"
    /\ met_count = 6
    /\ MetAmongEight = 6
    /\ criteria_evaluations[SECTOR_FOCUS].status = MET
    /\ StartsAt(criteria_evaluations[SECTOR_FOCUS].explanation, 1, "Opportunistic")
    /\ report.met_count = 7

NoSectorPhrase(text) ==
    /\ ~AnyPresent(text, <<"healthcare", "education", "data economy",
                           "energy transition", "industrials">>)
    /\ ~AnyPresent(text, <<"consumer", "traditional infrastructure">>)

\* C2: on a text with no target-sector and no excluded-sector phrase,
\* evaluate_sector_focus returns MET "Opportunistic..." when met_criteria_count >= 6
\* and NOT_MET "Sector information not clear" when met_criteria_count <= 5.
C2_OpportunisticFromSix ==
    Returned("evaluate_sector_focus") /\ NoSectorPhrase(call.analysis_text) =>
        /\ call.met_criteria_count >= 6 =>
               /\ call.ret.status = MET
               /\ StartsAt(call.ret.explanation, 1, "Opportunistic")
        /\ call.met_criteria_count <= 5 =>
               /\ call.ret.status = NOT_MET
               /\ call.ret.explanation = "Sector information not clear"

C2_Witness ==
    /\ Returned("evaluate_sector_focus")
    /\ NoSectorPhrase(call.analysis_text)
    /\ call.analysis_text = "infrastructure sector"
    /\ call.met_criteria_count = 6
    /\ call.ret.status = MET

RECOMMEND             == "RECOMMEND for further due diligence"
CONDITIONAL_RECOMMEND == "CONDITIONAL RECOMMEND - address key gaps"
DO_NOT_RECOMMEND      == "DO NOT RECOMMEND - insufficient criteria met"

\* C3: generate_overall_recommendation returns RECOMMEND iff met_count >= 7,
\* CONDITIONAL RECOMMEND iff 5 <= met_count <= 6, DO NOT RECOMMEND iff
\* met_count <= 4, whatever total_count is.
C3_TierBoundaries ==
    Returned("generate_overall_recommendation") =>
        /\ call.ret = RECOMMEND <=> call.met_count >= 7
        /\ call.ret = CONDITIONAL_RECOMMEND <=> (5 <= call.met_count /\ call.met_count <= 6)
        /\ call.ret = DO_NOT_RECOMMEND <=> call.met_count <= 4

\* 7 of a total of 7: the top tier although every criterion counted is met
C3_Witness ==
    /\ Returned("generate_overall_recommendation")
    /\ call.met_count = 7
    /\ call.total_count = 7
    /\ call.ret = RECOMMEND

GccJvSignal(text) ==
    /\ Present(text, "gcc")
    /\ Present(text, "joint venture") \/ Present(text, "jv")
    /\ AnyPresent(text, <<"expansion", "partner", "business model", "proven">>)
DividendSignal(text) ==
    /\ Present(text, "dividend")
    /\ FGt(extract_yield_percentage(text), Float(4, 1))
KgiSignal(text) ==
    /\ Present(text, "kgi")
    /\ Present(text, "co-investment") \/ Present(text, "participation")

\* C4: evaluate_geography_structure returns MET iff the GCC joint-venture signal,
\* a dividend with an extracted yield strictly above 4.0, or the KGI co-investment
\* signal is present; with the dividend alone a yield of 4.0 is NOT_MET and 4.01 MET.
C4_GeographyStructure ==
    Returned("evaluate_geography_structure") =>
        LET text == call.analysis_text IN
        /\ call.ret.status \in {MET, NOT_MET}
        /\ call.ret.status = MET <=>
               (GccJvSignal(text) \/ DividendSignal(text) \/ KgiSignal(text))
        /\ (Present(text, "dividend") /\ ~GccJvSignal(text) /\ ~KgiSignal(text)) =>
               /\ FEq(extract_yield_percentage(text), Float(4, 1)) =>
                      call.ret.status = NOT_MET
               /\ FEq(extract_yield_percentage(text), Float(401, 100)) =>
                      call.ret.status = MET

C4_Witness ==
    /\ Returned("evaluate_geography_structure")
    /\ call.analysis_text = "dividend 4.01%"
    /\ ~GccJvSignal(call.analysis_text) /\ ~KgiSignal(call.analysis_text)
    /\ call.ret.status = MET

\* C5: evaluate_investment_size returns MET iff the extracted amount is >= 5.0, with
\* the preferred-threshold explanation iff it is >= 7.9; an amount in (0, 5.0) is
\* NOT_MET "below ... minimum" and an amount of 0 is NOT_MET "Investment size not
\* specified".
C5_InvestmentSize ==
    Returned("evaluate_investment_size") =>
        LET amount == extract_investment_amount(call.analysis_text)
            said(words) == Contains(call.ret.explanation, words)
        IN
        /\ call.ret.status \in {MET, NOT_MET}
        /\ call.ret.status = MET <=> FGe(amount, Float(5, 1))
        /\ call.ret.status = MET =>
               /\ said("meets preferred threshold") <=> FGe(amount, Float(79, 10))
               /\ said("meets minimum threshold") <=> ~FGe(amount, Float(79, 10))
        /\ (FGt(amount, FZero) /\ FLt(amount, Float(5, 1))) =>
               /\ call.ret.status = NOT_MET
               /\ said("below $5.0m minimum")
        /\ FEq(amount, FZero) =>
               /\ call.ret.status = NOT_MET
               /\ call.ret.explanation = "Investment size not specified"

\* exactly 5.0: MET at the minimum threshold
C5_Witness ==
    /\ Returned("evaluate_investment_size")
    /\ call.analysis_text = "$5.0m"
    /\ FEq(extract_investment_amount(call.analysis_text), Float(5, 1))
    /\ call.ret.status = MET
    /\ Contains(call.ret.explanation, "meets minimum threshold")

\* C6: evaluate_process_timeline returns MET iff the KGI co-investment signal is
\* present and weeks >= 3, or weeks >= 8; weeks above 0 and below the applicable
\* threshold is NOT_MET "too short", weeks = 0 is NOT_MET "Timeline information
\* absent".
C6_ProcessTimeline ==
    Returned("evaluate_process_timeline") =>
        LET text == call.analysis_text
            weeks == extract_timeline_weeks(text)
            threshold == IF KgiSignal(text) THEN 3 ELSE 8
        IN
        /\ call.ret.status \in {MET, NOT_MET}
        /\ call.ret.status = MET <=> ((KgiSignal(text) /\ weeks >= 3) \/ weeks >= 8)
        /\ (weeks > 0 /\ weeks < threshold) =>
               /\ call.ret.status = NOT_MET
               /\ Contains(call.ret.explanation, "too short")
        /\ weeks = 0 =>
               /\ call.ret.status = NOT_MET
               /\ call.ret.explanation = "Timeline information absent"

\* three weeks pass with the KGI signal
C6_Witness ==
    /\ Returned("evaluate_process_timeline")
    /\ call.analysis_text = "3 weeks KGI co-investment"
    /\ extract_timeline_weeks(call.analysis_text) = 3
    /\ call.ret.status = MET

LowRiskPhrase(text) == Present(text, "low risk") \/ Present(text, "low-risk")

\* C7: evaluate_return_threshold returns MET iff IRR >= 15.0, or 0 < IRR < 15.0 with
\* a low-risk phrase; 0 < IRR < 15.0 without the phrase is NOT_MET "without low-risk
\* justification"; IRR = 0 is NOT_MET "Return projections not provided" even with
\* the low-risk phrase.
C7_ReturnThreshold ==
    Returned("evaluate_return_threshold") =>
        LET text == call.analysis_text
            irr == extract_irr_percentage(text)
            below == FGt(irr, FZero) /\ FLt(irr, Float(15, 1))
        IN
        /\ call.ret.status \in {MET, NOT_MET}
        /\ call.ret.status = MET <=>
               (FGe(irr, Float(15, 1)) \/ (below /\ LowRiskPhrase(text)))
        /\ (below /\ ~LowRiskPhrase(text)) =>
               /\ call.ret.status = NOT_MET
               /\ Contains(call.ret.explanation, "without low-risk justification")
        /\ FEq(irr, FZero) =>
               /\ call.ret.status = NOT_MET
               /\ call.ret.explanation = "Return projections not provided"

\* a literal 0% IRR beside a low-risk phrase is still "not provided"
C7_Witness ==
    /\ Returned("evaluate_return_threshold")
    /\ call.analysis_text = "IRR 0% low risk"
    /\ LowRiskPhrase(call.analysis_text)
    /\ call.ret.explanation = "Return projections not provided"

FundPhrase(text) ==
    AnyPresent(text, <<"venture fund", "pe fund", "hedge fund", "fund investment",
                       "pooled investment">>)
DirectKeyword(text) ==
    AnyPresent(text, <<"company", "business", "startup", "direct investment">>)

\* C8: evaluate_asset_class_exclusion returns NOT_MET with the fund-exclusion
\* explanation whenever a fund-type phrase is present, whether or not a
\* direct-investment keyword is; MET iff no fund-type phrase and a direct keyword;
\* otherwise NOT_MET "Asset class information unclear or absent".
C8_AssetClassExclusion ==
    Returned("evaluate_asset_class_exclusion") =>
        LET text == call.analysis_text IN
        /\ call.ret.status \in {MET, NOT_MET}
        /\ FundPhrase(text) =>
               /\ call.ret.status = NOT_MET
               /\ StartsAt(call.ret.explanation, 1, "Fund investment identified - excluded")
        /\ call.ret.status = MET <=> (~FundPhrase(text) /\ DirectKeyword(text))
        /\ (~FundPhrase(text) /\ ~DirectKeyword(text)) =>
               /\ call.ret.status = NOT_MET
               /\ call.ret.explanation = "Asset class information unclear or absent"

\* a fund-type phrase beside "company"
C8_Witness ==
    /\ Returned("evaluate_asset_class_exclusion")
    /\ call.analysis_text = "venture fund company"
    /\ FundPhrase(call.analysis_text) /\ DirectKeyword(call.analysis_text)
    /\ call.ret.status = NOT_MET

\* C9: evaluate_investor_syndication returns MET on every text; "lead investor"
\* selects only which of the two explanations is returned.
C9_SyndicationAlwaysMet ==
    Returned("evaluate_investor_syndication") =>
        /\ call.ret.status = MET
        /\ Present(call.analysis_text, "lead investor") =>
               call.ret.explanation = "Lead investor identified in syndicate"
        /\ ~Present(call.analysis_text, "lead investor") =>
               StartsAt(call.ret.explanation, 1, "No lead investor identified")

C9_Witness ==
    /\ Returned("evaluate_investor_syndication")
    /\ ~Present(call.analysis_text, "lead investor")
    /\ call.analysis_text = "investor"
    /\ call.ret.status = MET

NoFeePhrase(text) ==
    Present(text, "no management fee") \/ Present(text, "no direct management fee")

\* the number of places where phrase starts in the lower-cased text
Occurrences(text, phrase) ==
    Cardinality({i \in 1..Len(text) : StartsAt(Lower(text), i, phrase)})

\* C10: evaluate_fee_terms returns MET iff a no-fee phrase is present, even beside
\* another "management fee" mention; "management fee" without a no-fee phrase is
\* NOT_MET "Management fees present"; no fee phrase at all is NOT_MET with the
\* missing-information explanation.
C10_FeeTerms ==
    Returned("evaluate_fee_terms") =>
        LET text == call.analysis_text IN
        /\ call.ret.status \in {MET, NOT_MET}
        /\ call.ret.status = MET <=> NoFeePhrase(text)
        /\ (Present(text, "management fee") /\ ~NoFeePhrase(text)) =>
               /\ call.ret.status = NOT_MET
               /\ StartsAt(call.ret.explanation, 1, "Management fees present")
        /\ ~Present(text, "management fee") =>
               /\ call.ret.status = NOT_MET
               /\ StartsAt(call.ret.explanation, 1, "Fee information not mentioned")

\* a no-fee phrase followed by a second, plain "management fee"
C10_Witness ==
    /\ Returned("evaluate_fee_terms")
    /\ NoFeePhrase(call.analysis_text)
    /\ Occurrences(call.analysis_text, "management fee") = 2
    /\ call.ret.status = MET

NewJvSignal(text) ==
    /\ Present(text, "new")
    /\ Present(text, "joint venture") \/ Present(text, "jv")
EbitdaPositivePhrase(text) ==
    Present(text, "ebitda positive") \/ Present(text, "positive ebitda")
WithinYearPhrase(text) ==
    AnyPresent(text, <<"within one year", "12 months", "less than a year">>)
AdditionalFundingPhrase(text) ==
    AnyPresent(text, <<"additional funding", "more funding", "next round", "series">>)

\* C11: evaluate_financial_milestones returns MET iff "new" and a joint-venture word
\* are present, or an EBITDA-positive phrase is, or a within-one-year phrase is
\* present and no additional-funding phrase is; the branches are tried in that
\* order, so the new-JV explanation is returned even beside an additional-funding
\* phrase; otherwise NOT_MET.
C11_FinancialMilestones ==
    Returned("evaluate_financial_milestones") =>
        LET text == call.analysis_text IN
        /\ call.ret.status \in {MET, NOT_MET}
        /\ call.ret.status = MET <=>
               \/ NewJvSignal(text)
               \/ EbitdaPositivePhrase(text)
               \/ WithinYearPhrase(text) /\ ~AdditionalFundingPhrase(text)
        /\ NewJvSignal(text) => call.ret.explanation = "Not applicable - New JV"
        /\ (~NewJvSignal(text) /\ EbitdaPositivePhrase(text)) =>
               call.ret.explanation = "Company is already EBITDA positive"
        /\ call.ret.status = NOT_MET =>
               StartsAt(call.ret.explanation, 1, "Timeline exceeds one year")

\* a new joint venture that also asks for additional funding
C11_Witness ==
    /\ Returned("evaluate_financial_milestones")
    /\ call.analysis_text = "new joint venture additional funding"
    /\ NewJvSignal(call.analysis_text) /\ AdditionalFundingPhrase(call.analysis_text)
    /\ call.ret.status = MET
    /\ call.ret.explanation = "Not applicable - New JV"

\* the target sectors in list order, as the explanation spells them
SectorPhrases == <<"healthcare", "education", "data economy", "energy transition", "industrials">>
SectorTitles  == <<"Healthcare", "Education", "Data Economy", "Energy Transition", "Industrials">>
TargetSectorPresent(text) == AnyPresent(text, SectorPhrases)
ExcludedSectorPresent(text) ==
    AnyPresent(text, <<"consumer", "traditional infrastructure">>)
\* the index of the first target sector, in list order, that the text contains
FirstListedSector(text) ==
    Least({k \in 1..Len(SectorPhrases) : Present(text, SectorPhrases[k])})

\* C12: evaluate_sector_focus returns MET whenever a target-sector phrase is
\* present, for every met_criteria_count and also beside an excluded-sector phrase,
\* and the explanation names the first target sector in list order that the text
\* contains; with no target sector and an excluded-sector phrase it returns NOT_MET
\* for every met_criteria_count.
C12_SectorFocusListOrder ==
    Returned("evaluate_sector_focus") =>
        LET text == call.analysis_text IN
        /\ TargetSectorPresent(text) =>
               /\ call.ret.status = MET
               /\ call.ret.explanation =
                      "Company operates in " \o SectorTitles[FirstListedSector(text)]
                      \o " - target sector"
        /\ (~TargetSectorPresent(text) /\ ExcludedSectorPresent(text)) =>
               /\ call.ret.status = NOT_MET
               /\ call.ret.explanation =
                      "Company in consumer or traditional infrastructure sectors"

\* "industrials" comes first in the text, "healthcare" first in the list
C12_Witness ==
    /\ Returned("evaluate_sector_focus")
    /\ call.analysis_text = "industrials healthcare"
    /\ call.met_criteria_count = 0
    /\ call.ret.status = MET
    /\ call.ret.explanation = "Company operates in Healthcare - target sector"

RECURSIVE PercentMatchesFrom(_, _)
\* the values of the "<number>%" matches of text from position i on, in text order,
\* each match starting where the one before it ended
PercentMatchesFrom(text, i) ==
    LET starts == {q \in i..Len(text) : PercentEnd(text, q) # 0} IN
    IF starts = {} THEN <<>>
    ELSE <<ParseFloat(PercentGroup(text, Least(starts)))>>
         \o PercentMatchesFrom(text, PercentEnd(text, Least(starts)))

\* C13: extract_yield_percentage returns the first "<number>%" value in text order
\* that is strictly greater than 1, skipping every earlier value <= 1, and 0.0 when
\* no value qualifies; for "0.5% dividend, yield of 6%" it returns 6.0.
C13_YieldSkipsSmallValues ==
    Returned("extract_yield_percentage") =>
        LET text == call.analysis_text
            values == PercentMatchesFrom(text, 1)
            above == {k \in 1..Len(values) : FGt(values[k], Float(1, 1))}
        IN
        /\ above # {} => FEq(call.ret, values[Least(above)])
        /\ above = {} => FEq(call.ret, FZero)
        /\ text = "0.5% dividend, yield of 6%" => FEq(call.ret, Float(6, 1))

C13_Witness ==
    /\ Returned("extract_yield_percentage")
    /\ call.analysis_text = "0.5% dividend, yield of 6%"
    /\ Len(PercentMatchesFrom(call.analysis_text, 1)) = 2
    /\ FEq(call.ret, Float(6, 1))

\* the verdict of each of the eight context-free criteria on a text
EightVerdicts(text) ==
    [c \in {EIGHT_CRITERIA[j] : j \in 1..Len(EIGHT_CRITERIA)} |->
        CASE c = "Geography/Structure"   -> evaluate_geography_structure(text)
          [] c = "Financial Milestones"  -> evaluate_financial_milestones(text)
          [] c = "Asset Class Exclusion" -> evaluate_asset_class_exclusion(text)
          [] c = "Investor Syndication"  -> evaluate_investor_syndication(text)
          [] c = "Fee Terms"             -> evaluate_fee_terms(text)
          [] c = "Investment Size"       -> evaluate_investment_size(text)
          [] c = "Process Timeline"      -> evaluate_process_timeline(text)
          [] c = "Return Threshold"      -> evaluate_return_threshold(text)]

\* what a pass that runs alone on the text leaves behind: the met count handed to
\* Sector Focus and the nine verdicts
AloneMetCount(text) ==
    LET eight == EightVerdicts(text) IN
    Cardinality({c \in DOMAIN eight : eight[c].status = MET})
AloneVerdicts(text) ==
    LET eight == EightVerdicts(text)
        met == Cardinality({c \in DOMAIN eight : eight[c].status = MET})
    IN [c \in DOMAIN eight \cup {SECTOR_FOCUS} |->
           IF c = SECTOR_FOCUS THEN evaluate_sector_focus(text, met) ELSE eight[c]]

\* a single pass ends with exactly what AloneVerdicts and AloneMetCount describe
SinglePassResult ==
    pc = "done" =>
        /\ criteria_evaluations = AloneVerdicts(analysis_text)
        /\ met_count = AloneMetCount(analysis_text)

\* C15: of two screening passes on independent texts whose statements interleave
\* arbitrarily, each ends with the same nine verdicts, the same met count handed
\* to Sector Focus and the same reported count as when it runs alone on its text.
C15_InterleavedPassesIndependent ==
    \A p \in Passes :
        pc[p] = "done" =>
            LET alone == AloneVerdicts(analysis_text[p]) IN
            /\ criteria_evaluations[p] = alone
            /\ met_count[p] =
                   Cardinality({c \in DOMAIN alone \ {SECTOR_FOCUS} : alone[c].status = MET})
            /\ report[p].met_count =
                   Cardinality({c \in DOMAIN alone : alone[c].status = MET})

\* both passes are done: one found six of eight and an opportunistic sector, the
\* other an excluded sector
C15_Witness ==
    /\ \A p \in Passes : pc[p] = "done"
    /\ analysis_text[2] = "Consumer goods."
    /\ met_count[1] = 6
    /\ criteria_evaluations[1][SECTOR_FOCUS].status = MET
    /\ criteria_evaluations[2][SECTOR_FOCUS].status = NOT_MET
    /\ criteria_evaluations[1]["Fee Terms"] # criteria_evaluations[2]["Fee Terms"]

\* the nine evaluators
EVALUATORS ==
    {"evaluate_geography_structure", "evaluate_financial_milestones",
     "evaluate_asset_class_exclusion", "evaluate_investor_syndication",
     "evaluate_fee_terms", "evaluate_investment_size", "evaluate_process_timeline",
     "evaluate_return_threshold", "evaluate_sector_focus"}

\* C16: every verdict returned by any of the nine evaluators, on every text and
\* every met_criteria_count, has a status in {MET, NOT_MET} and a non-empty
\* explanation: each decision tree ends in a verdict on every path.
C16_VerdictsWellFormed ==
    call.fn \in EVALUATORS =>
        /\ DOMAIN call.ret = {"status", "explanation", "color"}
        /\ call.ret.status \in {MET, NOT_MET}
        /\ call.ret.explanation # ""

\* a text with a dollar figure that is no amount in millions: the last branch
C16_Witness ==
    /\ Returned("evaluate_investment_size")
    /\ call.analysis_text = "$12 5m"
    /\ FEq(extract_investment_amount(call.analysis_text), FZero)
    /\ call.ret.status = NOT_MET
    /\ call.ret.explanation = "Investment size not specified"

GREEN_CIRCLE == "U+1F7E2"
RED_CIRCLE   == "U+1F534"

\* C17: in every verdict the marker (the "color" field) is determined by the status
\* alone: every MET verdict carries one glyph, every NOT_MET verdict another, and
\* the two glyphs differ.
C17_MarkerFollowsStatus ==
    call.fn \in EVALUATORS =>
        /\ GREEN_CIRCLE # RED_CIRCLE
        /\ call.ret.status = MET => call.ret.color = GREEN_CIRCLE
        /\ call.ret.status = NOT_MET => call.ret.color = RED_CIRCLE

\* a MET verdict whose explanation reads like a refusal
C17_Witness ==
    /\ Returned("evaluate_investor_syndication")
    /\ StartsAt(call.ret.explanation, 1, "No lead investor identified")
    /\ call.ret.status = MET
    /\ call.ret.color = GREEN_CIRCLE

\* every keyword that some evaluator looks for
RECOGNIZED_KEYWORDS ==
    <<"gcc", "joint venture", "jv", "expansion", "partner", "business model", "proven",
      "dividend", "kgi", "co-investment", "participation",
      "new", "ebitda positive", "positive ebitda",
      "within one year", "12 months", "less than a year",
      "additional funding", "more funding", "next round", "series",
      "venture fund", "pe fund", "hedge fund", "fund investment", "pooled investment",
      "company", "business", "startup", "direct investment",
      "lead investor",
      "no management fee", "no direct management fee", "management fee",
      "low risk", "low-risk",
      "healthcare", "education", "data economy", "energy transition", "industrials",
      "consumer", "traditional infrastructure">>

\* the text contains no recognized keyword and no amount, week, IRR or percent pattern
NothingRecognized(text) ==
    /\ ~AnyPresent(text, RECOGNIZED_KEYWORDS)
    /\ \A i \in 1..Len(text) :
           /\ AmountAt(Lower(text), i) = ""
           /\ WeekAt(Lower(text), i) = ""
           /\ IrrAt(Lower(text), i) = ""
           /\ PercentEnd(text, i) = 0

\* C18: on a text with no recognized keyword or pattern a full screening pass ends
\* with the absent or unclear branch of every criterion: Geography/Structure,
\* Financial Milestones, Asset Class Exclusion ("unclear or absent"), Fee Terms
\* ("not mentioned"), Investment Size ("not specified"), Process Timeline
\* ("absent"), Return Threshold ("not provided") and Sector Focus ("Sector
\* information not clear") are NOT_MET, and Investor Syndication is MET with the
\* no-lead-investor explanation.
C18_AbsentBranches ==
    (pc = "done" /\ NothingRecognized(analysis_text)) =>
        LET verdict(c) == criteria_evaluations[c] IN
        /\ DOMAIN criteria_evaluations =
               {EIGHT_CRITERIA[j] : j \in 1..Len(EIGHT_CRITERIA)} \cup {SECTOR_FOCUS}
        /\ verdict("Geography/Structure").status = NOT_MET
        /\ StartsAt(verdict("Geography/Structure").explanation, 1,
                    "Does not meet any of the three required categories")
        /\ verdict("Financial Milestones").status = NOT_MET
        /\ StartsAt(verdict("Financial Milestones").explanation, 1,
                    "Timeline exceeds one year or additional funding rounds needed")
        /\ verdict("Asset Class Exclusion").status = NOT_MET
        /\ verdict("Asset Class Exclusion").explanation =
               "Asset class information unclear or absent"
        /\ verdict("Investor Syndication").status = MET
        /\ StartsAt(verdict("Investor Syndication").explanation, 1,
                    "No lead investor identified")
        /\ verdict("Fee Terms").status = NOT_MET
        /\ StartsAt(verdict("Fee Terms").explanation, 1, "Fee information not mentioned")
        /\ verdict("Investment Size").status = NOT_MET
        /\ verdict("Investment Size").explanation = "Investment size not specified"
        /\ verdict("Process Timeline").status = NOT_MET
        /\ verdict("Process Timeline").explanation = "Timeline information absent"
        /\ verdict("Return Threshold").status = NOT_MET
        /\ verdict("Return Threshold").explanation = "Return projections not provided"
        /\ verdict(SECTOR_FOCUS).status = NOT_MET
        /\ verdict(SECTOR_FOCUS).explanation = "Sector information not clear"
        /\ report.met_count = 1

\* a finished pass on a text of near misses only
C18_Witness ==
    /\ pc = "done"
    /\ analysis_text = "$12 5m"
    /\ NothingRecognized(analysis_text)
    /\ met_count = 1
    /\ criteria_evaluations[SECTOR_FOCUS].explanation = "Sector information not clear"

\* C19: extract_investment_amount, extract_timeline_weeks and
\* extract_irr_percentage each return the value of the first match of their pattern
\* in text order (not the largest, not the last), the sentinel 0 when the pattern
\* does not occur, and never a negative value; none of them fails on any text.
C19_ExtractorsFirstMatch ==
    LET lowered == Lower(call.analysis_text)
        amounts == {i \in 1..Len(lowered) : AmountAt(lowered, i) # ""}
        weeks == {i \in 1..Len(lowered) : WeekAt(lowered, i) # ""}
        irrs == {i \in 1..Len(lowered) : IrrAt(lowered, i) # ""}
    IN
    /\ Returned("extract_investment_amount") =>
           /\ amounts = {} => call.ret = FZero
           /\ amounts # {} =>
                  FEq(call.ret, ParseFloat(AmountAt(lowered, Least(amounts))))
           /\ call.analysis_text = "$9m, not $6m" => FEq(call.ret, Float(9, 1))
           /\ call.analysis_text = "$4.99m $9m, not $6m" => FEq(call.ret, Float(499, 100))
           /\ FGe(call.ret, FZero)
    /\ Returned("extract_timeline_weeks") =>
           /\ weeks = {} => call.ret = 0
           /\ weeks # {} => call.ret = ParseInt(WeekAt(lowered, Least(weeks)))
           /\ call.analysis_text = "12 weeks, not 9 weeks" => call.ret = 12
           /\ call.analysis_text = "7 weeks 12 weeks, not 9 weeks" => call.ret = 7
           /\ call.ret >= 0
    /\ Returned("extract_irr_percentage") =>
           /\ irrs = {} => call.ret = FZero
           /\ irrs # {} => FEq(call.ret, ParseFloat(IrrAt(lowered, Least(irrs))))
           /\ call.analysis_text = "IRR 18%, not 16%" => FEq(call.ret, Float(18, 1))
           /\ call.analysis_text = "irr of 14.99% IRR 18%, not 16%" =>
                  FEq(call.ret, Float(1499, 100))
           /\ FGe(call.ret, FZero)

\* three amounts, the first neither the largest nor the last
C19_Witness ==
    /\ Returned("extract_investment_amount")
    /\ call.analysis_text = "$4.99m $9m, not $6m"
    /\ Cardinality({i \in 1..Len(call.analysis_text) :
                       AmountAt(Lower(call.analysis_text), i) # ""}) = 3
    /\ FEq(call.ret, Float(499, 100))

\* C20: within a screening pass a verdict is never changed once it is in the
\* registry: evaluating later criteria, Sector Focus included, counting the MET
\* verdicts and generating the report leave every verdict already stored as it was.
C20_VerdictsNeverMutated ==
    [][\A c \in DOMAIN criteria_evaluations :
           /\ c \in DOMAIN criteria_evaluations'
           /\ criteria_evaluations'[c] = criteria_evaluations[c]]_vars

\* a finished pass: nine verdicts stored, counted twice and reported, one of them
\* NOT_MET
C20_Witness ==
    /\ pc = "done"
    /\ Cardinality(DOMAIN criteria_evaluations) = 9
    /\ met_count = 7
    /\ report.met_count = 8
    /\ criteria_evaluations["Return Threshold"].status = NOT_MET

\* C24: in every screening pass, when Sector Focus is MET through the opportunistic
\* branch the final met count over the nine criteria is at least 7 and the overall
\* recommendation is the RECOMMEND tier.
C24_OpportunisticImpliesRecommend ==
    (pc = "done"
     /\ StartsAt(criteria_evaluations[SECTOR_FOCUS].explanation, 1, "Opportunistic")) =>
        /\ criteria_evaluations[SECTOR_FOCUS].status = MET
        /\ report.met_count >= 7
        /\ report.overall_recommendation = RECOMMEND
        /\ report.overall_recommendation \notin {CONDITIONAL_RECOMMEND, DO_NOT_RECOMMEND}

\* the lowest case: exactly six of the other eight, seven in the report
C24_Witness ==
    /\ pc = "done"
    /\ StartsAt(criteria_evaluations[SECTOR_FOCUS].explanation, 1, "Opportunistic")
    /\ MetAmongEight = 6
    /\ report.met_count = 7
    /\ report.overall_recommendation = RECOMMEND

\* C25: in every screening pass, when Sector Focus is NOT_MET with "Sector
\* information not clear" the final met count over the nine criteria is between 1
\* and 5 and the overall recommendation is not the RECOMMEND tier; the final met
\* count of any pass is at least 1, Investor Syndication being always MET.
C25_UnclearSectorBoundsCount ==
    pc = "done" =>
        /\ report.met_count >= 1
        /\ criteria_evaluations["Investor Syndication"].status = MET
        /\ criteria_evaluations[SECTOR_FOCUS].explanation = "Sector information not clear" =>
               /\ criteria_evaluations[SECTOR_FOCUS].status = NOT_MET
               /\ report.met_count >= 1
               /\ report.met_count <= 5
               /\ report.overall_recommendation # RECOMMEND

\* the highest case: five of the other eight and no sector phrase
C25_Witness ==
    /\ pc = "done"
    /\ criteria_evaluations[SECTOR_FOCUS].explanation = "Sector information not clear"
    /\ MetAmongEight = 5
    /\ report.met_count = 5
    /\ report.overall_recommendation = CONDITIONAL_RECOMMEND

\* C26: in every screening pass, when Process Timeline is MET through its KGI
\* co-investment branch, Geography/Structure is MET as well: both read the same KGI
\* signal.
C26_KgiTimelineImpliesGeography ==
    ("Process Timeline" \in DOMAIN criteria_evaluations
     /\ StartsAt(criteria_evaluations["Process Timeline"].explanation, 1,
                 "KGI co-investment with")) =>
        /\ criteria_evaluations["Process Timeline"].status = MET
        /\ KgiSignal(analysis_text)
        /\ criteria_evaluations["Geography/Structure"].status = MET

\* the lighter threshold at work: three weeks, KGI named with "participation"
C26_Witness ==
    /\ pc = "done"
    /\ analysis_text = "3 weeks KGI participation"
    /\ StartsAt(criteria_evaluations["Process Timeline"].explanation, 1,
                "KGI co-investment with 3 week")
    /\ criteria_evaluations["Geography/Structure"].status = MET

RECURSIVE LineSeparatorEnd(_, _)
\* the index after the colons and blanks that follow on the same line from i on
LineSeparatorEnd(text, i) ==
    IF Char(text, i) \in {":", " ", "\t"} THEN LineSeparatorEnd(text, i + 1) ELSE i

\* "company name" starts at i and a colon or white space follows it
NamedAt(text, i) ==
    /\ StartsAt(Lower(text), i, "company name")
    /\ IsNameSeparator(Char(text, i + Len("company name")))

\* the remainder of the line after "company name" at i and its separators, up to the
\* first line break or period, without surrounding blanks
RestOfLine(text, i) ==
    LET from == LineSeparatorEnd(text, i + Len("company name")) IN
    Strip(SubSeq(text, from, NameEnd(text, from) - 1))

\* C21: extract_company_name returns the remainder of the line that follows
\* "company name" and a colon or white space, up to the first line break or period,
\* and "Unknown Company" whenever no company name is present; it never returns an
\* empty string and never text taken from a later line.
C21_CompanyNameStaysOnLine ==
    Returned("extract_company_name") =>
        LET text == call.analysis_text
            named == {i \in 1..Len(text) : NamedAt(text, i) /\ RestOfLine(text, i) # ""}
        IN
        /\ call.ret # ""
        /\ named = {} => call.ret = "Unknown Company"
        /\ named # {} => call.ret = RestOfLine(text, Least(named))

STAGES == <<"search", "analyze", "evaluate", "report">>
\* s is the beginning of t
IsPrefixOf(s, t) == Len(s) <= Len(t) /\ SubSeq(t, 1, Len(s)) = s
StartsWith(s, prefix) == StartsAt(s, 1, prefix)
\* the stage started last, "" before the first
LastStage(w) == IF w.started = <<>> THEN "" ELSE w.started[Len(w.started)]
\* the client calls so far are a search, then analyses, then a chat completion
CallsInOrder(calls) ==
    \A i, j \in 1..Len(calls) :
        i < j => /\ calls[j] # "document_search"
                 /\ calls[i] # "chat_completion"

\* what holds in every state of a call of execute_workflow
WorkflowStateRule ==
    /\ workflow.at # "raised"
    /\ IsPrefixOf(workflow.started, STAGES)
    /\ CallsInOrder(workflow.client_calls)
    /\ workflow.attached_file_ids = <<>> =>
          /\ workflow.client_calls = <<>>
          /\ workflow.started = <<>>
          /\ workflow.at = "returned" => workflow.ret = NO_DOCUMENT_ERROR
    /\ "report" \in {workflow.started[k] : k \in 1..Len(workflow.started)} =>
          /\ workflow.document_ids # <<>>
          /\ Len(workflow.analysis_results) = Batches(workflow.document_ids)
          /\ workflow.detailed_analysis.type = "str"
          /\ analysis_text = workflow.detailed_analysis.value
          /\ DOMAIN criteria_evaluations =
                 {EIGHT_CRITERIA[j] : j \in 1..Len(EIGHT_CRITERIA)} \cup {SECTOR_FOCUS}
    /\ (workflow.at = "returned" /\ workflow.attached_file_ids # <<>>) =>
          CASE LastStage(workflow) = "search" ->
                   \/ workflow.ret = NOT_RETRIEVED_ERROR
                   \/ StartsWith(workflow.ret, "Error during document search: ")
            [] LastStage(workflow) = "analyze" ->
                   StartsWith(workflow.ret, "Error during document analysis: ")
            [] LastStage(workflow) = "evaluate" ->
                   StartsWith(workflow.ret, "Error during criteria evaluation: ")
            [] LastStage(workflow) = "report" ->
                   \/ StartsWith(workflow.ret, "Error during report generation: ")
                   \/ /\ workflow.response.status = 200
                      /\ workflow.ret = REPORT_TEXT
            [] OTHER -> FALSE

\* what holds of every step: a stage is started only by the step that leaves the
\* stage before it, and a failure ends the call in that very step with the error of
\* its stage
WorkflowStepRule ==
    /\ workflow.started' # workflow.started =>
          /\ workflow.at # "returned"
          /\ workflow.started' = SubSeq(STAGES, 1, Len(workflow.started) + 1)
    /\ (workflow.at = "search" /\ workflow' # workflow) =>
          LET response == workflow.response' IN
          /\ response.status # 200 =>
                /\ workflow.at' = "returned"
                /\ StartsWith(workflow.ret', "Error during document search: ")
          /\ (response.status = 200
              /\ ("documents" \notin DOMAIN response.json
                  \/ response.json = [documents |-> <<>>])) =>
                /\ workflow.at' = "returned"
                /\ workflow.ret' = NOT_RETRIEVED_ERROR
          /\ workflow.started' = <<"search">>
    /\ (workflow.at = "analyzing" /\ polling.at = "raised") =>
          /\ workflow.at' = "returned"
          /\ workflow.ret' = "Error during document analysis: " \o polling.outcome.error
          /\ workflow.started' = <<"search", "analyze">>
    /\ (workflow.at = "evaluate" /\ workflow.detailed_analysis.type # "str") =>
          /\ workflow.at' = "returned"
          /\ StartsWith(workflow.ret', "Error during criteria evaluation: ")
          /\ workflow.started' = <<"search", "analyze", "evaluate">>
    /\ (workflow.at = "chat" /\ workflow' # workflow) =>
          /\ workflow.at' = "returned"
          /\ workflow.started' = STAGES
          /\ workflow.response'.status # 200 =>
                StartsWith(workflow.ret', "Error during report generation: ")

\* C22: execute_workflow runs its stages strictly in the order search, analyze,
\* evaluate, report, and never raises: with no attached file ids it returns the
\* no-document error without calling the client; when a stage raises or the search
\* returns no documents it returns an error string naming that stage and no later
\* stage is started; the report is generated only after all prior stages succeeded.
C22_StagesInOrderNeverRaises ==
    /\ []WorkflowStateRule
    /\ [][WorkflowStepRule]_<<workflow, polling>>

\* all four stages ran, the analysis in two batches, and the report came back
C22_Witness ==
    /\ workflow.at = "returned"
    /\ workflow.ret = REPORT_TEXT
    /\ workflow.started = STAGES
    /\ workflow.client_calls =
           <<"document_search", "analyze_documents_with_polling",
             "analyze_documents_with_polling", "chat_completion">>

\* the status of a poll response, "" when it carries none
PollStatus(response) ==
    IF "status" \in DOMAIN response.json THEN response.json.status.value ELSE ""
IsCompleted(response) ==
    response.status = 200
    /\ Lower(PollStatus(response)) \in {"completed", "complete", "finished", "success"}
IsFailed(response) ==
    response.status = 200 /\ Lower(PollStatus(response)) \in {"failed", "error"}

\* what holds of the step that takes the response to one poll
PollStepRule ==
    (polling.at = "poll" /\ polling' # polling) =>
        LET response == polling.response' IN
        /\ IsCompleted(response) =>
              /\ polling.at' = "returned"
              /\ polling.outcome'.kind = "return"
              /\ ("result" \in DOMAIN response.json /\ Truthy(response.json.result)) =>
                     polling.outcome'.value = response.json.result
              /\ polling.polls' = polling.polls
        /\ (IsFailed(response) \/ response.status \notin {200, 404}) =>
              /\ polling.at' = "raised"
              /\ polling.outcome'.kind = "raise"
              /\ polling.outcome'.error # "Analysis timed out"
              /\ polling.polls' = polling.polls
        /\ (response.status = 404
            \/ (response.status = 200 /\ ~IsCompleted(response) /\ ~IsFailed(response))) =>
              IF polling.polls < 60
              THEN polling.at' = "poll" /\ polling.polls' = polling.polls + 1
              ELSE /\ polling.at' = "raised"
                   /\ polling.outcome' = Raises("Analysis timed out")
                   /\ polling.polls' = polling.polls

\* C23: once its start request has succeeded, analyze_documents_with_polling always
\* terminates when every poll response arrives: it makes at most
\* MAX_WAIT_TIME / POLL_INTERVAL = 60 polls; a 200 response with a completed status
\* returns the result, a 200 with a failed or error status or a response status
\* other than 200 and 404 raises, a 404 or a non-terminal 200 leads to exactly one
\* more poll, and after the last allowed poll it raises "Analysis timed out".
C23_PollingTerminates ==
    /\ [](MAX_WAIT_TIME \div POLL_INTERVAL = 60 /\ polling.polls <= 60)
    /\ [][PollStepRule]_<<workflow, polling>>
    /\ (polling.at = "poll") ~> (polling.at \in {"returned", "raised"})

\* the sixtieth poll was answered with 404 and the call timed out
C23_Witness ==
    /\ polling.at = "raised"
    /\ polling.polls = 60
    /\ polling.response.status = 404
    /\ polling.outcome = Raises("Analysis timed out")

=============================================================================
